---- MODULE Spec2Model ----
(***************************************************************************)
(* Model of the authenticated browser-automation orchestrator              *)
(* (src/server/browserless-auth-service.ts, class BrowserlessAuthService). *)
(*                                                                         *)
(* Every public operation is an async function; each `await` on the        *)
(* browser is a suspension point whose outcome (resolve / reject) is       *)
(* chosen by the environment.  One action of the model is one such         *)
(* awaited call together with the synchronous code that follows it up to   *)
(* the next await.                                                         *)
(***************************************************************************)
EXTENDS Integers, Sequences, FiniteSets, TLC

(***************************************************************************)
(* Bounds of the model.                                                    *)
(***************************************************************************)
\* longest flowSteps array handed to testUserFlow
MaxSteps == 3
\* longest selectors array handed to scrapeAuthenticatedContent
MaxSelectors == 2
\* number of context identities the browser can hand out
MaxCtx == 1
\* number of invocation slots (async activations of a public operation)
NumCalls == 2
MaxRequests == 2   \* engagement requests one card sends

Calls == 1..NumCalls
CtxIds == 1..MaxCtx

(***************************************************************************)
(* JavaScript values.                                                      *)
(***************************************************************************)
\* the value `undefined` of an optional string field
Undefined == "<undefined>"
\* the value `undefined` of an optional numeric field
NoNumber == -1

\* JS truthiness of an optional string: undefined and '' are falsy
TruthyStr(s) == s # Undefined /\ s # ""
\* JS truthiness of an optional number: undefined and 0 are falsy
TruthyNum(n) == n # NoNumber /\ n # 0
\* a || b on optional strings
OrStr(a, b) == IF TruthyStr(a) THEN a ELSE b
\* a || b on optional numbers
OrNum(a, b) == IF TruthyNum(a) THEN a ELSE b

(***************************************************************************)
(* Input domains.                                                          *)
(***************************************************************************)
Paths == {"/", "/p"}
ScrapeSelectors == {".post", "title"}

\* options.viewport left undefined
NoViewport == <<0, 0>>

\* an AuthenticatedBrowserOptions: {viewport?, userAgent?, bypassAuth?, timeout?}
\* (sessionData is read nowhere); bypassAuth is "true", "false" or Undefined
MkOptions(vp, ua, bypass, t) ==
    [viewport |-> vp, userAgent |-> ua, bypassAuth |-> bypass, timeout |-> t]

\* options = {}
NoOptions == MkOptions(NoViewport, Undefined, Undefined, NoNumber)

\* the options a caller passes
AllOptions ==
    {MkOptions(vp, ua, bypass, t) :
        vp \in {NoViewport, <<800, 600>>}, ua \in {Undefined, "UA"},
        bypass \in {Undefined, "true", "false"}, t \in {NoNumber, 0, 500}}

\* a FlowStep: {action, selector?, value?, path?, timeout?}
MkStep(a, s, v, p, t) ==
    [action |-> a, selector |-> s, value |-> v, path |-> p, timeout |-> t]

\* the steps a caller passes; fields an action never reads are left undefined
StepPool ==
    {MkStep("goto", Undefined, Undefined, p, NoNumber) : p \in {Undefined, "/p"}}
    \cup {MkStep("click", s, Undefined, Undefined, NoNumber) : s \in {Undefined, "#a"}}
    \cup {MkStep("fill", "#a", v, Undefined, NoNumber) : v \in {Undefined, "", "v"}}
    \cup {MkStep("fill", Undefined, "v", Undefined, NoNumber)}
    \cup {MkStep("screenshot", Undefined, Undefined, Undefined, NoNumber)}
    \cup {MkStep("wait", "#a", Undefined, Undefined, t) : t \in {NoNumber, 500}}
    \cup {MkStep("wait", Undefined, Undefined, Undefined, t) : t \in {NoNumber, 0, 500}}

\* all sequences over S of length at most n
RECURSIVE SeqsUpTo(_, _)
SeqsUpTo(S, n) ==
    IF n = 0 THEN {<<>>}
    ELSE LET shorter == SeqsUpTo(S, n - 1)
         IN  shorter \cup {Append(q, x) : q \in {r \in shorter : Len(r) = n - 1}, x \in S}

(***************************************************************************)
(* State.                                                                  *)
(***************************************************************************)
VARIABLES
    appBaseUrl,   \* this.appBaseUrl, set by the constructor
    call,         \* call[c]: the activation record of invocation slot c
    ctxState,     \* browser side: ctxState[id] in {"free", "open", "closed"}
    ctxCloses,    \* browser side: number of close() calls context id received
    maxInFlight,  \* how many invocations the caller keeps in flight at once
    mode          \* which inputs the callers draw from: "seq", "conc" or "opts"

\* PostCard (client): the state of one mounted card
VARIABLES
    user,               \* useAuth().user
    userEngagements,    \* the state of useState<string[]>, every queued update applied
    rendered,           \* userEngagements as the handlers of the last render see it
    userEngagementData, \* data of the engagement query
    requests,           \* the engagement requests sent by engageMutation.mutate
    toast,              \* the title of the last toast shown
    share               \* the share in progress and what it did so far

\* useAdminAuth / useAdminPermissions (client): the state of one mounted hook
VARIABLES
    adminData,          \* data of the admin query
    queryError,         \* error of the admin query
    error,              \* the state of useState<string | null>
    lastCheck           \* the last permission check a component made and its answer

cardVars == <<user, userEngagements, rendered, userEngagementData, requests, toast, share>>
adminVars == <<adminData, queryError, error, lastCheck>>

vars == <<appBaseUrl, call, ctxState, ctxCloses, maxInFlight, mode, cardVars, adminVars>>

\* the two header pairs every operation injects
BypassHeaders == {<<"x-test-auth-bypass", "true">>, <<"x-testing-mode", "true">>}

\* the marker awaited after navigation in screenshot, PDF and scrape
MarkerSelector == "[data-testid=\"authenticated-content\"]"

\* timeout of the marker wait, in ms
MarkerTimeout == 5000

\* a log line; all lines share one shape so that they can be compared
LogLine(k, n, t) == [kind |-> k, n |-> n, text |-> t]

\* no result delivered yet
NoResult == [kind |-> "none"]

\* an activation that has not started
IdleCall ==
    [op          |-> "none",
     pc          |-> "idle",
     path        |-> "/",
     options     |-> NoOptions,
     ctxArgs     |-> [viewport |-> NoViewport, userAgent |-> Undefined],
     fields      |-> <<>>,
     flowSteps   |-> <<>>,
     selectors   |-> <<>>,
     context     |-> 0,
     page        |-> FALSE,
     headers     |-> {},
     url         |-> <<"about:blank", "">>,
     marker      |-> "none",
     index       |-> 0,
     logs        |-> <<>>,
     screenshots |-> <<>>,
     data        |-> <<>>,
     capture     |-> <<>>,
     pending     |-> "none",
     inflight    |-> "none",
     trace       |-> <<>>,
     rejected    |-> <<>>,
     outcome     |-> "running",
     error       |-> "none",
     result      |-> NoResult]

(***************************************************************************)
(* The client side before anything happened: a card that has just mounted  *)
(* and an admin hook whose query has not answered.                         *)
(***************************************************************************)
\* useAuth().user: null, or a user with or without an energy field
MkUser(loggedIn, energy) == [loggedIn |-> loggedIn, energy |-> energy]
NoUser == MkUser(FALSE, NoNumber)

\* data of the engagement query: undefined, or an object with or without an
\* engagements array
MkEngagementData(present, hasList, list) ==
    [present |-> present, hasList |-> hasList, engagements |-> list]
NoEngagementData == MkEngagementData(FALSE, FALSE, <<>>)

\* the share text, by the parts it is put together from
MkText(by, excerpt, ellipsis, url) ==
    [by |-> by, excerpt |-> excerpt, ellipsis |-> ellipsis, url |-> url]
NoText == MkText("", 0, FALSE, "")

\* no share in progress
ShareIdle == [pc |-> "idle", text |-> NoText, canShare |-> FALSE, canCopy |-> FALSE, did |-> <<>>]

\* data of the admin query, by what the type guard of useAdminAuth looks at:
\* the typeof of the value, whether it has an isAdmin property, and that
\* property's value
MkAdminData(type, hasIsAdmin, isAdmin) ==
    [type |-> type, hasIsAdmin |-> hasIsAdmin, isAdmin |-> isAdmin]
NoAdminData == MkAdminData("undefined", FALSE, Undefined)

\* no permission check made yet
NoCheck == [permission |-> "", via |-> "", answer |-> FALSE, data |-> NoAdminData]

\* the JavaScript value null, where a string is expected
Null == "<null>"

InitCard ==
    /\ user = NoUser
    /\ userEngagements = <<>>
    /\ rendered = <<>>
    /\ userEngagementData = NoEngagementData
    /\ requests = <<>>
    /\ toast = ""
    /\ share = ShareIdle

InitAdmin ==
    /\ adminData = NoAdminData
    /\ queryError = Null
    /\ error = Null
    /\ lastCheck = NoCheck

Init ==
    /\ appBaseUrl = "http://localhost:5000"
    /\ call = [c \in Calls |-> IdleCall]
    /\ ctxState = [i \in CtxIds |-> "free"]
    /\ ctxCloses = [i \in CtxIds |-> 0]
    /\ maxInFlight = 1
    /\ mode = "seq"
    /\ InitCard
    /\ InitAdmin

\* the contexts the browser can hold
Contexts == DOMAIN ctxState

(***************************************************************************)
(* Helpers shared by the four operations.                                  *)
(***************************************************************************)
\* number of invocations between their start and the discard of their result
InFlight == Cardinality({c \in Calls : call[c].pc # "idle"})

\* the slot a new invocation is placed in
FreeSlot(c) == call[c].pc = "idle" /\ \A d \in Calls : d < c => call[d].pc # "idle"

\* one entry of the record of calls an invocation made on the browser
Did(act, ctx, target, ms) == [act |-> act, ctx |-> ctx, target |-> target, ms |-> ms]

\* the browser rejected the awaited call act of this activation
Rej(me, act) == [me EXCEPT !.rejected = Append(@, act)]

\* new Date().toISOString(): the clock is not part of the model
Now == "now"

\* `${this.appBaseUrl}${path}`
FullUrl(path) == <<appBaseUrl, path>>

\* `data:<media>;base64,${Buffer.from(bytes).toString('base64')}`
DataUri(media, bytes) == [media |-> media, enc |-> "base64", bytes |-> bytes]

\* what the browser renders for a page: determined by the document it shows
Rendered(kind, me) == <<kind, me.url>>

\* the identity the context the browser hands out next
FreshCtx == CHOOSE i \in Contexts : ctxState[i] = "free" /\ \A j \in Contexts : j < i => ctxState[j] # "free"

\* ThrowOutsideTry that swallows the rejection and returns an empty result
ThrowOutsideTry_Swallow(me, err) ==
    [me EXCEPT !.pc = "done", !.outcome = "returned"]

\* a rejection that leaves the async function before its try block:
\* the promise of the operation rejects at once, nothing else runs
ThrowOutsideTry(me, err) ==
    [me EXCEPT !.pc = "done", !.outcome = "thrown", !.error = err]

\* FlowFailure that returns a fresh screenshots array
FlowFailure_NoShots(me, err) ==
    [kind        |-> "flow",
     success     |-> FALSE,
     screenshots |-> <<>>,
     logs        |-> Append(me.logs, LogLine("Error", 0, err)),
     timestamp   |-> Now]

\* FlowFailure that returns logs without the error entry
FlowFailure_NoErrorLine(me, err) ==
    [kind        |-> "flow",
     success     |-> FALSE,
     screenshots |-> me.screenshots,
     logs        |-> me.logs,
     timestamp   |-> Now]

\* FlowFailure with the success flag of the normal return
FlowFailure_SuccessFlag(me, err) ==
    [kind        |-> "flow",
     success     |-> TRUE,
     screenshots |-> me.screenshots,
     logs        |-> Append(me.logs, LogLine("Error", 0, err)),
     timestamp   |-> Now]

\* the FlowResult built by the catch block of testUserFlow
FlowFailure(me, err) ==
    [kind        |-> "flow",
     success     |-> FALSE,
     screenshots |-> me.screenshots,
     logs        |-> Append(me.logs, LogLine("Error", 0, err)),
     timestamp   |-> Now]

\* the FlowResult built after the loop of testUserFlow
FlowSuccess(me) ==
    [kind        |-> "flow",
     success     |-> TRUE,
     screenshots |-> me.screenshots,
     logs        |-> me.logs,
     timestamp   |-> Now]

\* ThrowInsideTry without the catch block of testUserFlow
ThrowInsideTry_NoCatch(me, err) ==
    [me EXCEPT !.pc = "close", !.inflight = "none", !.pending = err]

\* ThrowInsideTry with the finally block missing on the failure path
ThrowInsideTry_NoFinally(me, err) ==
    IF me.op = "flow"
    THEN [me EXCEPT !.pc = "done", !.outcome = "returned", !.inflight = "none",
                    !.result = FlowFailure(me, err)]
    ELSE ThrowOutsideTry(me, err)

\* a rejection inside the try block: testUserFlow catches it and stages a
\* failure result, the other three operations have no catch and keep the
\* exception pending; in both cases control goes to the finally block
ThrowInsideTry(me, err) ==
    IF me.op = "flow"
    THEN [me EXCEPT !.pc = "close", !.inflight = "none", !.result = FlowFailure(me, err)]
    ELSE [me EXCEPT !.pc = "close", !.pending = err]

\* where the try block continues after the headers are set
AfterHeaders(op) == IF op = "flow" THEN "loop" ELSE "goto"

(***************************************************************************)
(* Entry points: the caller invokes a public operation.                    *)
(***************************************************************************)
\* a new activation may start in slot c
MayEnter(c) == FreeSlot(c) /\ InFlight < maxInFlight

Enter(c, op, path, steps, sels, opts) ==
    /\ call' = [call EXCEPT ![c] =
                   [IdleCall EXCEPT !.op = op, !.pc = "getBrowser", !.path = path,
                                    !.flowSteps = steps, !.selectors = sels,
                                    !.options = opts]]
    /\ UNCHANGED <<cardVars, adminVars, appBaseUrl, ctxState, ctxCloses, maxInFlight, mode>>

\* the arrays a caller passes
FlowInputs == SeqsUpTo(StepPool, MaxSteps)
ScrapeInputs == SeqsUpTo(ScrapeSelectors, MaxSelectors)

\* the short arrays the callers pass where invocations interleave or where
\* the options vary
ShortFlows ==
    {<<>>,
     <<MkStep("goto", Undefined, Undefined, "/p", NoNumber)>>,
     <<MkStep("click", "#a", Undefined, Undefined, NoNumber)>>,
     <<MkStep("fill", "#a", "v", Undefined, NoNumber)>>,
     <<MkStep("wait", "#a", Undefined, Undefined, NoNumber)>>,
     <<MkStep("goto", Undefined, Undefined, "/p", NoNumber),
       MkStep("screenshot", Undefined, Undefined, Undefined, NoNumber)>>}
ShortScrapes == {<<>>, <<".post">>}

\* the inputs of each mode
PathsIn(m) == IF m = "seq" THEN Paths ELSE {"/"}
FlowsIn(m) == IF m = "seq" THEN FlowInputs ELSE ShortFlows
ScrapesIn(m) == IF m = "seq" THEN ScrapeInputs ELSE ShortScrapes
OptionsIn(m) == IF m = "opts" THEN AllOptions ELSE {NoOptions}

takeAuthenticatedScreenshot(c) ==
    /\ MayEnter(c)
    /\ \E path \in PathsIn(mode), opts \in OptionsIn(mode) :
          Enter(c, "screenshot", path, <<>>, <<>>, opts)

generateAuthenticatedPDF(c) ==
    /\ MayEnter(c)
    /\ \E path \in PathsIn(mode), opts \in OptionsIn(mode) :
          Enter(c, "pdf", path, <<>>, <<>>, opts)

testUserFlow(c) ==
    /\ MayEnter(c)
    /\ \E steps \in FlowsIn(mode), opts \in OptionsIn(mode) :
          Enter(c, "flow", "/", steps, <<>>, opts)

scrapeAuthenticatedContent(c) ==
    /\ MayEnter(c)
    /\ \E path \in PathsIn(mode), sels \in ScrapesIn(mode), opts \in OptionsIn(mode) :
          Enter(c, "scrape", path, <<>>, sels, opts)

(***************************************************************************)
(* Session acquisition, before the try block.                              *)
(***************************************************************************)
\* const browser = await this.getPlaywrightBrowser();
GetPlaywrightBrowser(c) ==
    LET me == call[c] IN
    /\ me.pc = "getBrowser"
    /\ \E ok \in BOOLEAN :
          call' = [call EXCEPT ![c] =
                     IF ok THEN [me EXCEPT !.pc = "newContext"]
                     ELSE ThrowOutsideTry(Rej(me, "getPlaywrightBrowser"), "BrowserUnavailable")]
    /\ UNCHANGED <<cardVars, adminVars, appBaseUrl, ctxState, ctxCloses, maxInFlight, mode>>

\* defaults of the context options
DefaultViewport == <<1920, 1080>>
DefaultUserAgent == "Mozilla/5.0 (compatible; Playwright Testing Bot)"

\* options.viewport || { width: 1920, height: 1080 }
OrViewport(vp) == IF vp # NoViewport THEN vp ELSE DefaultViewport

\* the argument of browser.newContext in each operation; a property that is
\* not passed is undefined and the browser applies its own default for it
ContextArgs(op, opts) ==
    CASE op = "screenshot" -> [viewport  |-> OrViewport(opts.viewport),
                               userAgent |-> OrStr(opts.userAgent, DefaultUserAgent)]
      [] op \in {"pdf", "flow"} -> [viewport  |-> OrViewport(opts.viewport),
                                    userAgent |-> Undefined]
      [] OTHER -> [viewport |-> NoViewport, userAgent |-> Undefined]

\* const context = await browser.newContext({...});
NewContext(c) ==
    LET me == call[c] IN
    /\ me.pc = "newContext"
    /\ \/ /\ \E i \in Contexts : ctxState[i] = "free"
          /\ LET id == FreshCtx IN
             /\ ctxState' = [ctxState EXCEPT ![id] = "open"]
             /\ call' = [call EXCEPT ![c] =
                           [me EXCEPT !.pc = "newPage", !.context = id,
                                      !.ctxArgs = ContextArgs(me.op, me.options),
                                      !.trace = Append(@, Did("newContext", id, "", NoNumber))]]
       \/ /\ call' = [call EXCEPT ![c] =
                        ThrowOutsideTry(Rej([me EXCEPT !.trace = Append(@, Did("newContext", 0, "", NoNumber))], "newContext"),
                                        "ContextUnavailable")]
          /\ UNCHANGED ctxState
    /\ UNCHANGED <<cardVars, adminVars, appBaseUrl, ctxCloses, maxInFlight, mode>>

\* const page = await context.newPage();
NewPage(c) ==
    LET me == call[c]
        did == [me EXCEPT !.trace = Append(@, Did("newPage", me.context, "", NoNumber))] IN
    /\ me.pc = "newPage"
    /\ \E ok \in BOOLEAN :
          call' = [call EXCEPT ![c] =
                     IF ok THEN [did EXCEPT !.pc = "setHeaders", !.page = TRUE]
                     ELSE ThrowOutsideTry(Rej(did, "newPage"), "PageUnavailable")]
    /\ UNCHANGED <<cardVars, adminVars, appBaseUrl, ctxState, ctxCloses, maxInFlight, mode>>

(***************************************************************************)
(* Inside the try block: header injection.                                 *)
(***************************************************************************)
\* page.setExtraHTTPHeaders(given) on a page whose extra headers are old: the
\* call sets the extra headers of the page, it does not add to them
ExtraHTTPHeaders(old, given) == given

\* ApplyBypass that takes the headers off a page that already carries them
ApplyBypass_Toggle(old) == IF old = {} THEN ExtraHTTPHeaders(old, BypassHeaders) ELSE {}

\* the extra headers of a page after the header injection of an operation
ApplyBypass(old) == ExtraHTTPHeaders(old, BypassHeaders)

\* SetExtraHTTPHeaders that sends the bypass header without the testing-mode header
SetExtraHTTPHeaders_Partial(c) ==
    LET me == call[c]
        did == [me EXCEPT !.trace = Append(@, Did("setExtraHTTPHeaders", me.context, "", NoNumber))] IN
    /\ me.pc = "setHeaders"
    /\ \E ok \in BOOLEAN :
          call' = [call EXCEPT ![c] =
                     IF ok THEN [did EXCEPT !.pc = AfterHeaders(me.op),
                                            !.headers = {<<"x-test-auth-bypass", "true">>}]
                     ELSE ThrowInsideTry(Rej(did, "setExtraHTTPHeaders"), "HeadersFailed")]
    /\ UNCHANGED <<cardVars, adminVars, appBaseUrl, ctxState, ctxCloses, maxInFlight, mode>>

\* await page.setExtraHTTPHeaders({...});
SetExtraHTTPHeaders(c) ==
    LET me == call[c]
        did == [me EXCEPT !.trace = Append(@, Did("setExtraHTTPHeaders", me.context, "", NoNumber))] IN
    /\ me.pc = "setHeaders"
    /\ \E ok \in BOOLEAN :
          call' = [call EXCEPT ![c] =
                     IF ok THEN [did EXCEPT !.pc = AfterHeaders(me.op), !.headers = ApplyBypass(@)]
                     ELSE ThrowInsideTry(Rej(did, "setExtraHTTPHeaders"), "HeadersFailed")]
    /\ UNCHANGED <<cardVars, adminVars, appBaseUrl, ctxState, ctxCloses, maxInFlight, mode>>

(***************************************************************************)
(* takeAuthenticatedScreenshot, generateAuthenticatedPDF and               *)
(* scrapeAuthenticatedContent: navigate, wait for the marker, capture.     *)
(***************************************************************************)
\* await page.goto(fullUrl, { waitUntil: 'networkidle' });
Goto(c) ==
    LET me == call[c]
        did == [me EXCEPT !.trace = Append(@, Did("goto", me.context, me.path, NoNumber))] IN
    /\ me.pc = "goto"
    /\ \E ok \in BOOLEAN :
          call' = [call EXCEPT ![c] =
                     IF ok THEN [did EXCEPT !.pc = "waitMarker", !.url = FullUrl(me.path)]
                     ELSE ThrowInsideTry(Rej(did, "goto"), "NavigationFailed")]
    /\ UNCHANGED <<cardVars, adminVars, appBaseUrl, ctxState, ctxCloses, maxInFlight, mode>>

\* where the try block continues after the marker wait
AfterMarker(op) == IF op = "scrape" THEN "locator" ELSE "capture"

\* WaitForMarker that gives up the operation when the marker is missing
WaitForMarker_Abandon(c) ==
    LET me == call[c]
        did == [me EXCEPT !.trace = Append(@, Did("waitForSelector", me.context, MarkerSelector, MarkerTimeout))] IN
    /\ me.pc = "waitMarker"
    /\ \E found \in BOOLEAN :
          call' = [call EXCEPT ![c] =
                     IF found THEN [did EXCEPT !.pc = AfterMarker(me.op), !.marker = "found"]
                     ELSE [Rej(did, "waitForSelector") EXCEPT !.pc = "close", !.marker = "missing"]]
    /\ UNCHANGED <<cardVars, adminVars, appBaseUrl, ctxState, ctxCloses, maxInFlight, mode>>

\* WaitForMarker without the inner try/catch: a missing marker throws
WaitForMarker_Hard(c) ==
    LET me == call[c]
        did == [me EXCEPT !.trace = Append(@, Did("waitForSelector", me.context, MarkerSelector, MarkerTimeout))] IN
    /\ me.pc = "waitMarker"
    /\ \E found \in BOOLEAN :
          call' = [call EXCEPT ![c] =
                     IF found THEN [did EXCEPT !.pc = AfterMarker(me.op), !.marker = "found"]
                     ELSE ThrowInsideTry([Rej(did, "waitForSelector") EXCEPT !.marker = "missing"],
                                         "MarkerMissing")]
    /\ UNCHANGED <<cardVars, adminVars, appBaseUrl, ctxState, ctxCloses, maxInFlight, mode>>

\* try { await page.waitForSelector(marker, { timeout: 5000 }); } catch { console.log(...) }
WaitForMarker(c) ==
    LET me == call[c]
        did == [me EXCEPT !.trace = Append(@, Did("waitForSelector", me.context, MarkerSelector, MarkerTimeout))] IN
    /\ me.pc = "waitMarker"
    /\ \E found \in BOOLEAN :
          call' = [call EXCEPT ![c] =
                     IF found THEN [did EXCEPT !.pc = AfterMarker(me.op), !.marker = "found"]
                     ELSE [Rej(did, "waitForSelector") EXCEPT !.pc = AfterMarker(me.op), !.marker = "missing"]]
    /\ UNCHANGED <<cardVars, adminVars, appBaseUrl, ctxState, ctxCloses, maxInFlight, mode>>

\* the browser call and the media type of the payload of a capture operation
CaptureCall(op) == IF op = "pdf" THEN "pdf" ELSE "screenshot"
CaptureMedia(op) == IF op = "pdf" THEN "application/pdf" ELSE "image/png"

\* FullPage that captures the full page only when bypassAuth is given and true
FullPage_Truthy(opts) == opts.bypassAuth = "true"

\* fullPage: options.bypassAuth !== false
FullPage(opts) == opts.bypassAuth # "false"

\* the extent page.screenshot is asked for; page.pdf takes none
CaptureExtent(me) ==
    IF me.op = "pdf" THEN ""
    ELSE IF FullPage(me.options) THEN "fullPage" ELSE "viewport"

\* const screenshot = await page.screenshot({...});  /  const pdf = await page.pdf({...});
Capture(c) ==
    LET me == call[c]
        did == [me EXCEPT !.trace = Append(@, Did(CaptureCall(me.op), me.context, CaptureExtent(me), NoNumber))] IN
    /\ me.pc = "capture"
    /\ \E ok \in BOOLEAN :
          call' = [call EXCEPT ![c] =
                     IF ok THEN [did EXCEPT !.pc = "title",
                                            !.capture = <<DataUri(CaptureMedia(me.op), Rendered(CaptureCall(me.op), me))>>]
                     ELSE ThrowInsideTry(Rej(did, CaptureCall(me.op)), "CaptureFailed")]
    /\ UNCHANGED <<cardVars, adminVars, appBaseUrl, ctxState, ctxCloses, maxInFlight, mode>>

\* the CaptureResult of screenshot and PDF
CaptureResult(me) ==
    [kind     |-> me.op,
     payload  |-> me.capture[1],
     timestamp |-> Now,
     metadata |-> [url |-> me.url, title |-> <<"title", me.url>>, user |-> "TEST_USER"]]

\* title: await page.title(), then the return statement of screenshot / PDF
CaptureTitle(c) ==
    LET me == call[c]
        did == [me EXCEPT !.trace = Append(@, Did("title", me.context, "", NoNumber))] IN
    /\ me.pc = "title"
    /\ me.op \in {"screenshot", "pdf"}
    /\ \E ok \in BOOLEAN :
          call' = [call EXCEPT ![c] =
                     IF ok THEN [did EXCEPT !.pc = "close", !.result = CaptureResult(me)]
                     ELSE ThrowInsideTry(Rej(did, "title"), "TitleFailed")]
    /\ UNCHANGED <<cardVars, adminVars, appBaseUrl, ctxState, ctxCloses, maxInFlight, mode>>

(***************************************************************************)
(* scrapeAuthenticatedContent: the data object.                            *)
(***************************************************************************)
\* data[key] = value on a JS object kept as a sequence of <<key, value>> in
\* insertion order: an existing key keeps its position and gets the value
RECURSIVE Put(_, _, _)
Put(data, key, value) ==
    IF data = <<>> THEN <<<<key, value>>>>
    ELSE IF Head(data)[1] = key THEN <<<<key, value>>>> \o Tail(data)
    ELSE <<Head(data)>> \o Put(Tail(data), key, value)

\* the keys of a data object
Keys(data) == {data[i][1] : i \in 1..Len(data)}

\* data[key], for a key of the object
Get(data, key) == LET i == CHOOSE j \in 1..Len(data) : data[j][1] = key IN data[i][2]

\* a value stored in the data object
Val(kind, v) == [kind |-> kind, v |-> v]

\* what locator(selector).allTextContents() yields on the page
TextsOf(me, selector) == Val("texts", <<me.url, selector>>)

\* for (const selector of selectors) { try { ... } catch (error) { data[selector] = `Error: ${error}` } }
ScrapeSelector(c) ==
    LET me  == call[c]
        sel == me.selectors[me.index + 1]
        did == [me EXCEPT !.trace = Append(@, Did("allTextContents", me.context, sel, NoNumber)),
                          !.index = @ + 1] IN
    /\ me.pc = "locator"
    /\ me.index < Len(me.selectors)
    /\ \E ok \in BOOLEAN :
          call' = [call EXCEPT ![c] =
                     IF ok THEN [did EXCEPT !.data = Put(@, sel, TextsOf(me, sel))]
                     ELSE [Rej(did, "allTextContents") EXCEPT !.data = Put(@, sel, Val("error", "LocatorFailed"))]]
    /\ UNCHANGED <<cardVars, adminVars, appBaseUrl, ctxState, ctxCloses, maxInFlight, mode>>

\* data.title = await page.title(); data.url = page.url();
ScrapeTitle(c) ==
    LET me == call[c]
        did == [me EXCEPT !.trace = Append(@, Did("title", me.context, "", NoNumber))] IN
    /\ me.pc = "locator"
    /\ me.index = Len(me.selectors)
    /\ \E ok \in BOOLEAN :
          call' = [call EXCEPT ![c] =
                     IF ok THEN [did EXCEPT !.pc = "userInfo",
                                            !.data = Put(Put(@, "title", Val("string", <<"title", me.url>>)),
                                                         "url", Val("string", me.url))]
                     ELSE ThrowInsideTry(Rej(did, "title"), "TitleFailed")]
    /\ UNCHANGED <<cardVars, adminVars, appBaseUrl, ctxState, ctxCloses, maxInFlight, mode>>

\* data.userInfo = await this.extractUserInfo(page);  (never rejects: every
\* failure inside it is caught, a selector that fails just adds no field)
ExtractUserInfo(c) ==
    LET me == call[c]
        did == [me EXCEPT !.trace = Append(@, Did("extractUserInfo", me.context, "", NoNumber))] IN
    /\ me.pc = "userInfo"
    /\ \E seen \in BOOLEAN :
          call' = [call EXCEPT ![c] =
                     [did EXCEPT !.pc = "title",
                                 !.data = Put(@, "userInfo", Val("object", IF seen THEN "some" ELSE "empty"))]]
    /\ UNCHANGED <<cardVars, adminVars, appBaseUrl, ctxState, ctxCloses, maxInFlight, mode>>

\* the CaptureResult of scrape
ScrapeResult(me) ==
    [kind     |-> "scrape",
     payload  |-> me.data,
     timestamp |-> Now,
     metadata |-> [url |-> me.url, title |-> <<"title", me.url>>, user |-> "TEST_USER"]]

\* const metadata = { ..., title: await page.title(), ... }; return {...}
ScrapeMetadata(c) ==
    LET me == call[c]
        did == [me EXCEPT !.trace = Append(@, Did("title", me.context, "", NoNumber))] IN
    /\ me.pc = "title"
    /\ me.op = "scrape"
    /\ \E ok \in BOOLEAN :
          call' = [call EXCEPT ![c] =
                     IF ok THEN [did EXCEPT !.pc = "close", !.result = ScrapeResult(me)]
                     ELSE ThrowInsideTry(Rej(did, "title"), "TitleFailed")]
    /\ UNCHANGED <<cardVars, adminVars, appBaseUrl, ctxState, ctxCloses, maxInFlight, mode>>

(***************************************************************************)
(* testUserFlow: the step loop.                                            *)
(***************************************************************************)
\* timeout defaults of the wait step, in ms
WaitSelectorTimeout == 30000
WaitFlatTimeout == 1000

\* the browser call a step makes, "none" when its guard skips the call
StepCall(step) ==
    CASE step.action = "goto"       -> "goto"
      [] step.action = "click"      -> IF TruthyStr(step.selector) THEN "click" ELSE "none"
      [] step.action = "fill"       -> IF TruthyStr(step.selector) /\ TruthyStr(step.value)
                                       THEN "fill" ELSE "none"
      [] step.action = "screenshot" -> "screenshot"
      [] step.action = "wait"       -> IF TruthyStr(step.selector)
                                       THEN "waitForSelector" ELSE "waitForTimeout"

\* the selector, path or value the browser call of a step is made with
StepTarget(step) ==
    CASE step.action = "goto" -> OrStr(step.path, "/")
      [] step.action = "wait" /\ ~TruthyStr(step.selector) -> ""
      [] step.action = "screenshot" -> ""
      [] OTHER -> step.selector

\* the timeout the browser call of a step is made with
StepMs(step) ==
    CASE step.action = "wait" /\ TruthyStr(step.selector)  -> OrNum(step.timeout, WaitSelectorTimeout)
      [] step.action = "wait" /\ ~TruthyStr(step.selector) -> OrNum(step.timeout, WaitFlatTimeout)
      [] OTHER -> NoNumber

\* logs.push(`Step ${index + 1}: ${step.action}`)
StepHeader(index, step) == LogLine("Step", index + 1, step.action)

\* the line a step pushes once its browser call has resolved
StepDoneLine(step) ==
    CASE step.action = "goto"       -> LogLine("Navigated to", 0, OrStr(step.path, "/"))
      [] step.action = "click"      -> LogLine("Clicked", 0, step.selector)
      [] step.action = "fill"       -> LogLine("Filled", 0, step.selector)
      [] step.action = "screenshot" -> LogLine("Screenshot taken", 0, "")
      [] step.action = "wait"       -> IF TruthyStr(step.selector)
                                       THEN LogLine("Waited for", 0, step.selector)
                                       ELSE LogLine("Waited ms", OrNum(step.timeout, WaitFlatTimeout), "")

\* FlowStepBegin that pushes no header for a step whose guard skips the call
FlowStepBegin_NoHeaderOnSkip(c) ==
    LET me   == call[c]
        step == me.flowSteps[me.index + 1]
        hdr  == [me EXCEPT !.logs = Append(@, StepHeader(me.index, step))] IN
    /\ me.pc = "loop"
    /\ me.index < Len(me.flowSteps)
    /\ call' = [call EXCEPT ![c] =
                  IF StepCall(step) = "none"
                  THEN [me EXCEPT !.index = @ + 1]
                  ELSE [hdr EXCEPT !.pc = "await", !.inflight = StepCall(step),
                                   !.trace = Append(@, Did(StepCall(step), me.context,
                                                           StepTarget(step), StepMs(step)))]]
    /\ UNCHANGED <<cardVars, adminVars, appBaseUrl, ctxState, ctxCloses, maxInFlight, mode>>

\* the head of one loop iteration: push the step header, dispatch on the
\* action and issue its browser call; a step whose guard skips the call is
\* over at once and the loop moves on
FlowStepBegin(c) ==
    LET me   == call[c]
        step == me.flowSteps[me.index + 1]
        hdr  == [me EXCEPT !.logs = Append(@, StepHeader(me.index, step))] IN
    /\ me.pc = "loop"
    /\ me.index < Len(me.flowSteps)
    /\ call' = [call EXCEPT ![c] =
                  IF StepCall(step) = "none"
                  THEN [hdr EXCEPT !.index = @ + 1]
                  ELSE [hdr EXCEPT !.pc = "await", !.inflight = StepCall(step),
                                   !.trace = Append(@, Did(StepCall(step), me.context,
                                                           StepTarget(step), StepMs(step)))]]
    /\ UNCHANGED <<cardVars, adminVars, appBaseUrl, ctxState, ctxCloses, maxInFlight, mode>>

\* StepResolved that advances the loop by two
StepResolved_Skip(me, step) ==
    [me EXCEPT !.pc = "loop",
               !.inflight = "none",
               !.index = IF @ + 2 <= Len(me.flowSteps) THEN @ + 2 ELSE @ + 1,
               !.url = IF step.action = "goto" THEN FullUrl(OrStr(step.path, "/")) ELSE @,
               !.fields = CASE step.action = "fill" -> Put(@, step.selector, step.value)
                            [] step.action = "goto" -> <<>>
                            [] OTHER -> @,
               !.screenshots = IF step.action = "screenshot"
                               THEN Append(@, DataUri("image/png", Rendered("screenshot", me)))
                               ELSE @,
               !.logs = Append(@, StepDoneLine(step))]

\* StepResolved that puts its log line in front (unshift for push)
StepResolved_LogFirst(me, step) ==
    [me EXCEPT !.pc = "loop",
               !.inflight = "none",
               !.index = @ + 1,
               !.url = IF step.action = "goto" THEN FullUrl(OrStr(step.path, "/")) ELSE @,
               !.fields = CASE step.action = "fill" -> Put(@, step.selector, step.value)
                            [] step.action = "goto" -> <<>>
                            [] OTHER -> @,
               !.screenshots = IF step.action = "screenshot"
                               THEN Append(@, DataUri("image/png", Rendered("screenshot", me)))
                               ELSE @,
               !.logs = <<StepDoneLine(step)>> \o @]

\* StepResolved that puts a new screenshot in front of the earlier ones
StepResolved_ShotFirst(me, step) ==
    [me EXCEPT !.pc = "loop",
               !.inflight = "none",
               !.index = @ + 1,
               !.url = IF step.action = "goto" THEN FullUrl(OrStr(step.path, "/")) ELSE @,
               !.fields = CASE step.action = "fill" -> Put(@, step.selector, step.value)
                            [] step.action = "goto" -> <<>>
                            [] OTHER -> @,
               !.screenshots = IF step.action = "screenshot"
                               THEN <<DataUri("image/png", Rendered("screenshot", me))>> \o @
                               ELSE @,
               !.logs = Append(@, StepDoneLine(step))]

\* the state of the activation after the browser call of its step resolved
StepResolved(me, step) ==
    [me EXCEPT !.pc = "loop",
               !.inflight = "none",
               !.index = @ + 1,
               !.url = IF step.action = "goto" THEN FullUrl(OrStr(step.path, "/")) ELSE @,
               !.fields = CASE step.action = "fill" -> Put(@, step.selector, step.value)
                            [] step.action = "goto" -> <<>>
                            [] OTHER -> @,
               !.screenshots = IF step.action = "screenshot"
                               THEN Append(@, DataUri("image/png", Rendered("screenshot", me)))
                               ELSE @,
               !.logs = Append(@, StepDoneLine(step))]

\* the failure text of a rejected browser call of a step
StepError(step) == step.action

\* FlowStepEnd that isolates a failing click: the loop goes on to the next step
FlowStepEnd_IsolateClick(c) ==
    LET me   == call[c]
        step == me.flowSteps[me.index + 1] IN
    /\ me.pc = "await"
    /\ \E ok \in BOOLEAN :
          call' = [call EXCEPT ![c] =
                     IF ok THEN StepResolved(me, step)
                     ELSE IF step.action = "click"
                          THEN [Rej(me, me.inflight) EXCEPT !.pc = "loop", !.inflight = "none",
                                                           !.index = @ + 1]
                          ELSE ThrowInsideTry(Rej(me, me.inflight), StepError(step))]
    /\ UNCHANGED <<cardVars, adminVars, appBaseUrl, ctxState, ctxCloses, maxInFlight, mode>>

\* the awaited browser call of the current step resolves or rejects
FlowStepEnd(c) ==
    LET me   == call[c]
        step == me.flowSteps[me.index + 1] IN
    /\ me.pc = "await"
    /\ \E ok \in BOOLEAN :
          call' = [call EXCEPT ![c] =
                     IF ok THEN StepResolved(me, step)
                     ELSE ThrowInsideTry(Rej(me, me.inflight), StepError(step))]
    /\ UNCHANGED <<cardVars, adminVars, appBaseUrl, ctxState, ctxCloses, maxInFlight, mode>>

\* FlowReturn that hands the result to the caller before the finally block
FlowReturn_BeforeClose(c) ==
    LET me == call[c] IN
    /\ me.pc = "loop"
    /\ me.index = Len(me.flowSteps)
    /\ call' = [call EXCEPT ![c] = [me EXCEPT !.pc = "done", !.outcome = "returned",
                                              !.result = FlowSuccess(me)]]
    /\ UNCHANGED <<cardVars, adminVars, appBaseUrl, ctxState, ctxCloses, maxInFlight, mode>>

\* the loop is over: return { success: true, screenshots, logs, timestamp }
FlowReturn(c) ==
    LET me == call[c] IN
    /\ me.pc = "loop"
    /\ me.index = Len(me.flowSteps)
    /\ call' = [call EXCEPT ![c] = [me EXCEPT !.pc = "close", !.result = FlowSuccess(me)]]
    /\ UNCHANGED <<cardVars, adminVars, appBaseUrl, ctxState, ctxCloses, maxInFlight, mode>>

(***************************************************************************)
(* The finally block, and the end of an invocation.                        *)
(***************************************************************************)
\* what the caller gets once the finally block is over: the pending
\* exception if there is one, the staged result otherwise
Settle(me) ==
    IF me.pending # "none"
    THEN [me EXCEPT !.pc = "done", !.outcome = "thrown", !.error = me.pending, !.result = NoResult]
    ELSE [me EXCEPT !.pc = "done", !.outcome = "returned"]

\* CloseContext that closes the first open context of the browser, whoever
\* opened it
CloseContext_First(c) ==
    LET me     == call[c]
        target == CHOOSE i \in Contexts :
                     /\ ctxState[i] = "open"
                     /\ \A j \in Contexts : ctxState[j] = "open" => i <= j IN
    /\ me.pc = "close"
    /\ ctxState' = [ctxState EXCEPT ![target] = "closed"]
    /\ ctxCloses' = [ctxCloses EXCEPT ![target] = @ + 1]
    /\ call' = [call EXCEPT ![c] =
                  Settle([me EXCEPT !.trace = Append(@, Did("close", target, "", NoNumber))])]
    /\ UNCHANGED <<cardVars, adminVars, appBaseUrl, maxInFlight, mode>>

\* finally { await context.close(); }
\* context.close() is the release primitive of the browser: it is taken to
\* resolve always (closing is idempotent on the browser side and reports no
\* failure for a context that is already gone).
CloseContext(c) ==
    LET me == call[c] IN
    /\ me.pc = "close"
    /\ ctxState' = [ctxState EXCEPT ![me.context] = "closed"]
    /\ ctxCloses' = [ctxCloses EXCEPT ![me.context] = @ + 1]
    /\ call' = [call EXCEPT ![c] =
                  Settle([me EXCEPT !.trace = Append(@, Did("close", me.context, "", NoNumber))])]
    /\ UNCHANGED <<cardVars, adminVars, appBaseUrl, maxInFlight, mode>>

\* the caller has taken the result or the exception; the activation and its
\* locals are gone, and the browser forgets a context that was closed.  A
\* context that was never closed stays open in the browser.
Discard(c) ==
    LET me == call[c]
        gone == {i \in Contexts : i = me.context /\ ctxState[i] = "closed"} IN
    /\ me.pc = "done"
    /\ call' = [call EXCEPT ![c] = IdleCall]
    /\ ctxState' = [i \in Contexts |-> IF i \in gone THEN "free" ELSE ctxState[i]]
    /\ ctxCloses' = [i \in Contexts |-> IF i \in gone THEN 0 ELSE ctxCloses[i]]
    /\ UNCHANGED <<cardVars, adminVars, appBaseUrl, maxInFlight, mode>>

(***************************************************************************)
(* Specification.                                                          *)
(***************************************************************************)
Next ==
    \E c \in Calls :
        \/ takeAuthenticatedScreenshot(c)
        \/ generateAuthenticatedPDF(c)
        \/ testUserFlow(c)
        \/ scrapeAuthenticatedContent(c)
        \/ GetPlaywrightBrowser(c)
        \/ NewContext(c)
        \/ NewPage(c)
        \/ SetExtraHTTPHeaders(c)
        \/ Goto(c)
        \/ WaitForMarker(c)
        \/ Capture(c)
        \/ CaptureTitle(c)
        \/ ScrapeSelector(c)
        \/ ScrapeTitle(c)
        \/ ExtractUserInfo(c)
        \/ ScrapeMetadata(c)
        \/ FlowStepBegin(c)
        \/ FlowStepEnd(c)
        \/ FlowReturn(c)
        \/ CloseContext(c)
        \/ Discard(c)

Spec == Init /\ [][Next]_vars

\* two invocations in flight at once, on short inputs; the browser can hold
\* one context more than in Init
InitConc ==
    /\ appBaseUrl = "http://localhost:5000"
    /\ call = [c \in Calls |-> IdleCall]
    /\ ctxState = [i \in 1..(MaxCtx + 1) |-> "free"]
    /\ ctxCloses = [i \in 1..(MaxCtx + 1) |-> 0]
    /\ maxInFlight = 2
    /\ mode = "conc"
    /\ InitCard
    /\ InitAdmin

SpecConc == InitConc /\ [][Next]_vars

\* one invocation at a time, on short inputs, with every combination of options
InitOpts ==
    /\ appBaseUrl = "http://localhost:5000"
    /\ call = [c \in Calls |-> IdleCall]
    /\ ctxState = [i \in CtxIds |-> "free"]
    /\ ctxCloses = [i \in CtxIds |-> 0]
    /\ maxInFlight = 1
    /\ mode = "opts"
    /\ InitCard
    /\ InitAdmin

SpecOpts == InitOpts /\ [][Next]_vars

\* the steps of invocation c that are the browser answering an awaited call,
\* or the runtime resuming the operation after one
Progress(c) ==
    \/ GetPlaywrightBrowser(c)
    \/ NewContext(c)
    \/ NewPage(c)
    \/ SetExtraHTTPHeaders(c)
    \/ Goto(c)
    \/ WaitForMarker(c)
    \/ Capture(c)
    \/ CaptureTitle(c)
    \/ ScrapeSelector(c)
    \/ ScrapeTitle(c)
    \/ ExtractUserInfo(c)
    \/ ScrapeMetadata(c)
    \/ FlowStepBegin(c)
    \/ FlowStepEnd(c)
    \/ FlowReturn(c)
    \/ CloseContext(c)

\* every browser call eventually returns or throws, and the event loop
\* eventually resumes an operation whose awaited call has settled; callers
\* are not obliged to start operations
SpecLive == InitOpts /\ [][Next]_vars /\ \A c \in Calls : WF_vars(Progress(c))

(***************************************************************************)
(* Properties.                                                             *)
(***************************************************************************)
\* the positions of the record of browser calls that satisfy a test
TraceAt(me, act) == {i \in 1..Len(me.trace) : me.trace[i].act = act}

\* the contexts an activation obtained from newContext
OpenedBy(me) == {i \in TraceAt(me, "newContext") : me.trace[i].ctx # 0}

\* the activations whose result or exception has reached the caller
Done == {c \in Calls : call[c].pc = "done"}

\* the calls a caller awaits inside the try block whose rejection is not
\* absorbed on the spot
HardCalls == {"setExtraHTTPHeaders", "goto", "screenshot", "pdf", "title",
              "click", "fill", "waitForSelector", "waitForTimeout"}

\* the index in rejected of the first call that was rejected inside the try
\* block and not absorbed, 0 when there is none
RejectedInTry(me) ==
    {i \in 1..Len(me.rejected) :
        /\ me.rejected[i] \in HardCalls
        /\ ~(me.op # "flow" /\ me.rejected[i] = "waitForSelector")}

\* C1: an operation that opened its context and its page opens exactly one
\* context and closes that context exactly once, whether it returns or an
\* internal step (headers, navigation, wait, capture, flow step) throws;
\* at no moment has it opened two contexts or closed one twice.
C1_OneContextOpenedAndClosedOnce ==
    \A c \in Calls :
        LET me == call[c] IN
        /\ Cardinality(OpenedBy(me)) <= 1
        /\ Cardinality(TraceAt(me, "close")) <= 1
        /\ me.context # 0 => ctxCloses[me.context] <= 1
        /\ (c \in Done /\ me.page) =>
              /\ Cardinality(OpenedBy(me)) = 1
              /\ \A i \in OpenedBy(me) : me.trace[i].ctx = me.context
              /\ Cardinality(TraceAt(me, "close")) = 1
              /\ \A i \in TraceAt(me, "close") : me.trace[i].ctx = me.context
              /\ ctxState[me.context] = "closed"
              /\ ctxCloses[me.context] = 1

\* C1 witness: a screenshot whose navigation threw, with context and page
\* open, has reached its caller
C1_Witness ==
    \E c \in Done :
        /\ call[c].page
        /\ call[c].op = "screenshot"
        /\ call[c].outcome = "thrown"
        /\ call[c].rejected = <<"goto">>

\* C2: a context created by an operation is closed on every exit path,
\* including the one where the context exists and opening the page fails.
C2_ContextClosedOnEveryExit ==
    \A c \in Done :
        call[c].context # 0 => ctxState[call[c].context] = "closed"

(***************************************************************************)
(* Properties of testUserFlow.                                             *)
(***************************************************************************)
\* the browser calls flow steps make
StepActs == {"goto", "click", "fill", "screenshot", "waitForSelector", "waitForTimeout"}

IsStepCall(e) == e.act \in StepActs
IsStepHeader(l) == l.kind = "Step"
IsErrorLine(l) == l.kind = "Error"
IsDoneLine(l) == l.kind \notin {"Step", "Error"}

\* the browser calls the steps of a flow issued, in the order issued
FlowTrace(me) == SelectSeq(me.trace, IsStepCall)

\* the elements of a sequence
Range(q) == {q[i] : i \in 1..Len(q)}

\* the browser rejected the header injection / the call of a step
HeaderThrew(me) == \E i \in 1..Len(me.rejected) : me.rejected[i] = "setExtraHTTPHeaders"
StepThrew(me) == \E i \in 1..Len(me.rejected) : me.rejected[i] \in StepActs

\* the number of steps the loop has started
Attempted(me) ==
    IF me.pc = "await" \/ StepThrew(me) THEN me.index + 1 ELSE me.index

\* the flows that have handed a FlowResult to their caller
FlowReturned == {c \in Done : call[c].op = "flow" /\ call[c].outcome = "returned"}

\* the steps among the first m that make a browser call
Calling(steps, m) == {j \in 1..m : StepCall(steps[j]) # "none"}

\* the logs a flow has so far: those of the result once there is one
LogsOf(me) == IF me.result.kind = "flow" THEN me.result.logs ELSE me.logs

\* C3: when step k is the first step whose handler throws, the flow stops
\* at once: no step after k is started, the result has success = false, its
\* logs end with the one error entry carrying the failure text, and every
\* log entry and screenshot accumulated before step k is in the result.
C3_StopsAtFirstThrow ==
    \A c \in Done :
        LET me    == call[c]
            steps == me.flowSteps
            k     == me.index + 1
            r     == me.result
        IN  (me.op = "flow" /\ StepThrew(me)) =>
              /\ me.outcome = "returned"
              /\ r.success = FALSE
              /\ Len(r.logs) >= 1
              /\ r.logs[Len(r.logs)] = LogLine("Error", 0, StepError(steps[k]))
              /\ Cardinality({i \in 1..Len(r.logs) : IsErrorLine(r.logs[i])}) = 1
              /\ \A i \in 1..Len(r.logs) : IsStepHeader(r.logs[i]) => r.logs[i].n <= k
              /\ Len(FlowTrace(me)) = Cardinality(Calling(steps, k))
              /\ \A j \in 1..k : StepHeader(j - 1, steps[j]) \in Range(r.logs)
              /\ \A j \in Calling(steps, k - 1) : StepDoneLine(steps[j]) \in Range(r.logs)
              /\ Len(r.screenshots) =
                    Cardinality({j \in 1..(k - 1) : steps[j].action = "screenshot"})

\* C3 witness: the second of three steps threw after a screenshot was taken
C3_Witness ==
    \E c \in Done :
        /\ call[c].op = "flow"
        /\ StepThrew(call[c])
        /\ Len(call[c].flowSteps) = 3
        /\ call[c].index = 1
        /\ Len(call[c].result.screenshots) = 1

\* C4: the steps of a flow run strictly in array order, one at a time: the
\* headers logged are those of steps 1..m in order, the browser calls issued
\* are those of steps 1..m in order, and a step's call is issued only when
\* the calls of all earlier steps have resolved.
C4_StrictOrder ==
    \A c \in Calls :
        LET me     == call[c]
            steps  == me.flowSteps
            m      == Attempted(me)
            heads  == SelectSeq(LogsOf(me), IsStepHeader)
            issued == FlowTrace(me)
            solved == Len(SelectSeq(LogsOf(me), IsDoneLine))
            calls  == Calling(steps, m)
        IN  me.op = "flow" =>
              /\ m <= Len(steps)
              /\ Len(heads) = m
              /\ \A i \in 1..m : heads[i] = StepHeader(i - 1, steps[i])
              /\ Len(issued) = Cardinality(calls)
              /\ \A j \in calls :
                    issued[Cardinality(Calling(steps, j))] =
                        Did(StepCall(steps[j]), me.context, StepTarget(steps[j]), StepMs(steps[j]))
              /\ (me.inflight # "none") <=> (me.pc = "await")
              /\ Len(issued) - solved = (IF me.pc = "await" \/ StepThrew(me) THEN 1 ELSE 0)

\* C4 witness: the third step's call is in flight after two steps that each
\* made a call
C4_Witness ==
    \E c \in Calls :
        /\ call[c].op = "flow"
        /\ call[c].pc = "await"
        /\ call[c].index = 2
        /\ Len(FlowTrace(call[c])) = 3

\* C5: once the session is open, a failure of a step (or of the header
\* injection) is never thrown to the caller of testUserFlow: the caller
\* gets a FlowResult {success, screenshots, logs, timestamp}.
C5_FlowAlwaysReturnsResult ==
    \A c \in Done :
        LET me == call[c] IN
        (me.op = "flow" /\ me.page) =>
            /\ me.outcome = "returned"
            /\ me.error = "none"
            /\ DOMAIN me.result = {"kind", "success", "screenshots", "logs", "timestamp"}
            /\ me.result.success \in BOOLEAN

\* C5 witness: a flow whose click was rejected has reached its caller
C5_Witness ==
    \E c \in Done :
        /\ call[c].op = "flow"
        /\ call[c].rejected = <<"click">>

(***************************************************************************)
(* Properties of what reaches the caller.                                  *)
(***************************************************************************)
\* failures of opening the session (browser, context, page)
AcquisitionErrors == {"BrowserUnavailable", "ContextUnavailable", "PageUnavailable"}
AcquisitionCalls == {"getPlaywrightBrowser", "newContext", "newPage"}

\* failures of the calls inside the try block of screenshot, PDF and scrape
TryErrors == {"HeadersFailed", "NavigationFailed", "CaptureFailed", "TitleFailed"}

\* C6 as stated: the only failures that reach the caller as exceptions are
\* failures of acquiring the session; a failure of navigation or of the
\* capture in screenshot, PDF or scrape is not an exception to the caller.
\* (Opening the page is counted with acquisition here.)
C6_OnlyAcquisitionThrows ==
    \A c \in Done :
        call[c].outcome = "thrown" => call[c].error \in AcquisitionErrors

\* C6 amended: an operation throws exactly when acquiring the session
\* (browser, context, page) failed, or when, in screenshot, PDF or scrape, the
\* header injection, the navigation, the capture or a title read failed; in
\* the second case the context has been closed first.  A missing marker, a
\* failing scrape selector and the user-info extraction never make an
\* operation throw, and testUserFlow throws for acquisition failures only.
C6_ThrowsExactlyOnHardFailure ==
    \A c \in Done :
        LET me  == call[c]
            acq == \E i \in 1..Len(me.rejected) : me.rejected[i] \in AcquisitionCalls
            try == me.op # "flow" /\ RejectedInTry(me) # {}
        IN  /\ (me.outcome = "thrown") <=> (acq \/ try)
            /\ me.outcome \in {"thrown", "returned"}
            /\ me.outcome = "thrown" =>
                  /\ me.result = NoResult
                  /\ me.error \in AcquisitionErrors \cup TryErrors
                  /\ (me.error \in AcquisitionErrors) <=> acq
                  /\ me.error \in TryErrors =>
                        /\ me.op # "flow"
                        /\ me.page
                        /\ ctxState[me.context] = "closed"

\* C6 witness: a PDF whose marker was missing and whose capture then failed
\* has thrown to its caller
C6_Witness ==
    \E c \in Done :
        /\ call[c].op = "pdf"
        /\ call[c].outcome = "thrown"
        /\ call[c].error = "CaptureFailed"
        /\ call[c].rejected = <<"waitForSelector", "pdf">>

\* C7 as stated: in every FlowResult, logs holds at least one entry per
\* attempted step plus one terminal entry.
C7_LogsAtLeastAttemptedPlusOne ==
    \A c \in FlowReturned :
        Len(call[c].result.logs) >= Attempted(call[c]) + 1

\* C7 amended: in every FlowResult, logs holds at least one entry per
\* attempted step, plus one terminal (error) entry exactly when the result
\* has success = false; a successful flow has no terminal entry.
C7_LogsAtLeastAttempted ==
    \A c \in FlowReturned :
        LET me == call[c]
            r  == me.result
            errs == {i \in 1..Len(r.logs) : IsErrorLine(r.logs[i])}
        IN  /\ Len(r.logs) >= Attempted(me) + (IF r.success THEN 0 ELSE 1)
            /\ r.success => errs = {}
            /\ ~r.success => errs = {Len(r.logs)}

\* C7 witness: a successful flow of two skipped steps returned exactly two
\* log entries
C7_Witness ==
    \E c \in FlowReturned :
        /\ call[c].result.success
        /\ Len(call[c].flowSteps) = 2
        /\ Len(call[c].result.logs) = 2

\* C8: logs has at least as many entries as steps were attempted; the
\* 'Step i: <action>' entries are those of the attempted steps in array
\* order, and every entry of step i comes before every entry of step i+1.
C8_LogOrder ==
    \A c \in Calls :
        LET me    == call[c]
            steps == me.flowSteps
            logs  == LogsOf(me)
            m     == Attempted(me)
            heads == SelectSeq(logs, IsStepHeader)
            \* the step whose header is the latest one at or before position p
            owner(p) == Len(SelectSeq(SubSeq(logs, 1, p), IsStepHeader))
        IN  me.op = "flow" =>
              /\ Len(logs) >= m
              /\ heads = [i \in 1..m |-> StepHeader(i - 1, steps[i])]
              /\ \A p \in 1..Len(logs) :
                    IsDoneLine(logs[p]) =>
                        /\ owner(p) >= 1
                        /\ logs[p] = StepDoneLine(steps[owner(p)])
                        /\ StepCall(steps[owner(p)]) # "none"
                        /\ p >= 2 /\ IsStepHeader(logs[p - 1])
              /\ \A p \in 1..Len(logs) : IsErrorLine(logs[p]) => p = Len(logs)

\* C8 witness: a flow of three steps returned six entries, two per step
C8_Witness ==
    \E c \in FlowReturned :
        /\ Len(call[c].flowSteps) = 3
        /\ call[c].result.success
        /\ Len(call[c].result.logs) = 6
        /\ call[c].flowSteps[1].action # call[c].flowSteps[2].action

\* C9: testUserFlow returns success = true exactly when every step of the
\* sequence completed without throwing (the empty sequence and sequences
\* with skipped steps included), and success = false exactly when the header
\* injection or some step threw.
C9_SuccessIffNothingThrew ==
    \A c \in FlowReturned :
        LET me == call[c]
            r  == me.result
        IN  /\ r.success <=> (~HeaderThrew(me) /\ ~StepThrew(me))
            /\ r.success =>
                  /\ me.index = Len(me.flowSteps)
                  /\ Len(FlowTrace(me)) = Cardinality(Calling(me.flowSteps, Len(me.flowSteps)))
                  /\ me.rejected = <<>>
            /\ ~r.success => Len(me.rejected) = 1

\* C9 witness: a flow of a skipped fill and a click returned success
C9_Witness ==
    \E c \in FlowReturned :
        /\ call[c].result.success
        /\ Len(call[c].flowSteps) = 2
        /\ call[c].flowSteps[1].action = "fill"
        /\ StepCall(call[c].flowSteps[1]) = "none"
        /\ call[c].flowSteps[2].action = "click"
        /\ StepCall(call[c].flowSteps[2]) = "click"

\* C10 (state part): an operation that could not get the browser handle or
\* open the context has thrown that error, has no result, holds no context
\* and has made no call on a context or page.
C10_AcquisitionFailureState ==
    \A c \in Done :
        LET me == call[c] IN
        (\E i \in 1..Len(me.rejected) : me.rejected[i] \in {"getPlaywrightBrowser", "newContext"}) =>
            /\ me.outcome = "thrown"
            /\ me.error = (IF me.rejected[1] = "getPlaywrightBrowser"
                           THEN "BrowserUnavailable" ELSE "ContextUnavailable")
            /\ me.result = NoResult
            /\ me.context = 0
            /\ ~me.page
            /\ OpenedBy(me) = {}
            /\ \A i \in 1..Len(me.trace) : me.trace[i].ctx = 0

\* C10 (step part): the step in which the acquisition fails changes no
\* context of the browser
C10_AcquisitionFailureStep ==
    \A c \in Calls :
        (call[c].pc \in {"getBrowser", "newContext"} /\ call'[c].pc = "done") =>
            /\ ctxState' = ctxState
            /\ ctxCloses' = ctxCloses

\* C10: if the browser handle cannot be obtained or the context cannot be
\* opened, the operation fails with the error propagated to the caller,
\* returns no result, and no context exists afterwards.
C10_AcquisitionFailure ==
    [](C10_AcquisitionFailureState) /\ [][C10_AcquisitionFailureStep]_vars

\* C10 witness: a flow whose newContext was rejected has thrown
C10_Witness ==
    \E c \in Done :
        /\ call[c].op = "flow"
        /\ call[c].rejected = <<"newContext">>
        /\ call[c].outcome = "thrown"

(***************************************************************************)
(* Properties of the capture operations.                                   *)
(***************************************************************************)
CaptureOps == {"screenshot", "pdf", "scrape"}

\* the position of the marker wait in the record of browser calls, 0 if none
MarkerWaitAt(me) ==
    LET at == {i \in 1..Len(me.trace) :
                  me.trace[i].act = "waitForSelector" /\ me.trace[i].target = MarkerSelector}
    IN  IF at = {} THEN 0 ELSE CHOOSE i \in at : TRUE

\* C11: in screenshot, PDF and scrape a readiness marker that does not
\* appear in time is not a failure: the operation goes on to the capture
\* and, when nothing else fails, returns a normal CaptureResult; the missing
\* marker is never what the caller is thrown.
C11_MissingMarkerIsSoft ==
    \A c \in Calls :
        LET me == call[c]
            w  == MarkerWaitAt(me)
        IN  (me.op \in CaptureOps /\ me.marker = "missing") =>
              /\ w # 0
              /\ me.pc # "waitMarker"
              \* the call after the wait is the capture (the first locator
              \* read or the title read in scrape)
              /\ Len(me.trace) > w =>
                    me.trace[w + 1].act =
                        (CASE me.op = "screenshot" -> "screenshot"
                           [] me.op = "pdf" -> "pdf"
                           [] me.selectors # <<>> -> "allTextContents"
                           [] OTHER -> "title")
              /\ me.pc = "close" => Len(me.trace) > w
              /\ (c \in Done /\ RejectedInTry(me) = {}) =>
                    /\ me.outcome = "returned"
                    /\ me.result.kind = me.op
                    /\ me.op # "scrape" => me.result.payload.media = CaptureMedia(me.op)
                    /\ me.op = "scrape" => {"title", "url", "userInfo"} \subseteq Keys(me.result.payload)
              /\ (c \in Done /\ me.outcome = "thrown") =>
                    me.error \in {"CaptureFailed", "TitleFailed"}

\* C11 witness: a PDF whose marker never appeared has returned its result,
\* and the caller had passed a timeout
C11_Witness ==
    \E c \in Done :
        /\ call[c].op = "pdf"
        /\ call[c].rejected = <<"waitForSelector">>
        /\ call[c].outcome = "returned"
        /\ call[c].options.timeout = 500

\* the scrapes that have handed their result to the caller
ScrapeReturned == {c \in Done : call[c].op = "scrape" /\ call[c].outcome = "returned"}

\* C12: for every selector s passed to scrapeAuthenticatedContent, the
\* returned data has key s and data[s] is the text contents of the elements
\* matching s or, when evaluating s failed, an error description; a failing
\* selector does not abort the scrape; this for every selector string,
\* 'title', 'url' and 'userInfo' included.
C12_EverySelectorKeyed ==
    /\ \A c \in ScrapeReturned :
          LET me   == call[c]
              data == me.result.payload
          IN  \A i \in 1..Len(me.selectors) :
                 LET s == me.selectors[i] IN
                 /\ s \in Keys(data)
                 /\ Get(data, s).kind \in {"texts", "error"}
                 /\ Get(data, s).kind = "texts" => Get(data, s) = TextsOf(me, s)
    /\ \A c \in Done :
          (call[c].op = "scrape" /\ call[c].outcome = "thrown") =>
              \E i \in 1..Len(call[c].rejected) : call[c].rejected[i] # "allTextContents"

(***************************************************************************)
(* Header injection.                                                       *)
(***************************************************************************)
\* the positions of the trace of c at which a navigation was issued
NavigationsOf(c) == {k \in 1..Len(call[c].trace) : call[c].trace[k].act = "goto"}

\* C13: in every public operation the two bypass headers
\* (x-test-auth-bypass: true, x-testing-mode: true) are set on the page
\* before the first navigation of that page; no navigation is ever issued on
\* a page without both headers.
C13_HeadersBeforeNavigation ==
    \A c \in Calls :
       \A k \in NavigationsOf(c) :
          /\ call[c].page
          /\ call[c].headers = {<<"x-test-auth-bypass", "true">>, <<"x-testing-mode", "true">>}
          /\ "setExtraHTTPHeaders" \notin Range(call[c].rejected)
          /\ \E j \in 1..(k - 1) : call[c].trace[j].act = "setExtraHTTPHeaders"

C13_Witness ==
    \E c \in Done :
       /\ call[c].op = "flow"
       /\ Cardinality(NavigationsOf(c)) = 2
       /\ call[c].outcome = "returned"

(***************************************************************************)
(* Concurrent invocations.                                                 *)
(***************************************************************************)
\* the invocations that hold a context and have not left their operation
Holding == {c \in Calls : call[c].context # 0 /\ call[c].pc \notin {"idle", "done"}}

\* the invocations that have issued context.close()
Closed == {c \in Calls : \E k \in 1..Len(call[c].trace) : call[c].trace[k].act = "close"}

C14_OwnContextState ==
    /\ \A c, d \in Calls :
          (c # d /\ call[c].context # 0 /\ call[d].context # 0) =>
              call[c].context # call[d].context
    /\ \A c \in Holding :
          /\ ctxState[call[c].context] = "open"
          /\ ctxCloses[call[c].context] = 0
    /\ \A c \in Calls :
          \A k \in 1..Len(call[c].trace) : call[c].trace[k].ctx \in {0, call[c].context}
    /\ \A c \in Closed :
          /\ ctxState[call[c].context] = "closed"
          /\ ctxCloses[call[c].context] = 1
    /\ \A i \in Contexts : ctxCloses[i] <= 1

C14_OwnContextStep ==
    \A c \in Calls :
       call'[c] # call[c] =>
          /\ \A d \in Calls \ {c} : call'[d] = call[d]
          /\ \A i \in Contexts :
                ctxState'[i] # ctxState[i] => i \in {call[c].context, call'[c].context}
          /\ appBaseUrl' = appBaseUrl

\* C14: concurrent invocations of the public operations share no mutable
\* state: each invocation creates its own context, issues page actions only
\* on its own page, and closes only the context it created, under every
\* interleaving of the invocations' suspension points.
C14_NoSharedState == [](C14_OwnContextState) /\ [][C14_OwnContextStep]_vars

\* one invocation has closed its context while another one, still inside its
\* try block, has its own context open
C14_Witness ==
    \E c \in Closed, d \in Holding :
       /\ c # d
       /\ call[d].page
       /\ call[d].pc = "close"
       /\ ctxState[call[d].context] = "open"
       /\ call[c].op = call[d].op

(***************************************************************************)
(* Termination and release, under fair scheduling of the awaited calls.    *)
(***************************************************************************)
\* every started operation eventually returns or throws
EveryOperationEnds ==
    \A c \in Calls : (call[c].pc \notin {"idle", "done"}) ~> (call[c].pc = "done")

\* every context that was opened is eventually closed
EveryContextClosed ==
    \A i \in CtxIds : (ctxState[i] = "open") ~> (ctxState[i] = "closed")

\* C15: every started operation runs to completion or failure and then
\* releases its context: assuming each browser call eventually returns or
\* throws, every context that was opened is eventually closed and the
\* operation eventually returns or throws.
C15_RunsToEndAndReleases == EveryOperationEnds /\ EveryContextClosed

(***************************************************************************)
(* Options.                                                                *)
(***************************************************************************)
\* the invocations that have opened a context
Opened == {c \in Calls : call[c].context # 0}

\* C16: every public operation opens its context with the viewport taken
\* from options.viewport or else the default 1920x1080, and the user agent
\* taken from options.userAgent or else the default user-agent string.
C16_ContextFromOptions ==
    \A c \in Opened :
       LET given == call[c].options
           used  == call[c].ctxArgs
       IN  /\ used.viewport = IF given.viewport # NoViewport
                              THEN given.viewport ELSE <<1920, 1080>>
           /\ used.userAgent = IF given.userAgent # Undefined
                               THEN given.userAgent
                               ELSE "Mozilla/5.0 (compatible; Playwright Testing Bot)"

\* C17: the readiness-marker wait uses the caller's timeout option when one
\* is given and 5000 ms otherwise: for every value of options.timeout passed
\* to screenshot, PDF or scrape, the marker wait is issued with that value.
C17_MarkerWaitUsesTimeoutOption ==
    \A c \in Opened :
       LET me == call[c]
           w  == MarkerWaitAt(me)
       IN  (me.op \in CaptureOps /\ w # 0) =>
              me.trace[w].ms = IF me.options.timeout # NoNumber
                               THEN me.options.timeout ELSE 5000

(***************************************************************************)
(* The steps of a flow.                                                    *)
(***************************************************************************)
\* the flows that stand at the head of a loop iteration, about to run a step
AtStep == {c \in Calls : /\ call[c].op = "flow"
                         /\ call[c].pc = "loop"
                         /\ call[c].index < Len(call[c].flowSteps)}

\* the step a flow of AtStep is about to run
StepOf(c) == call[c].flowSteps[call[c].index + 1]

\* the flows whose awaited browser call act is resolved by this transition
Resolving(c, act) == /\ call[c].pc = "await"
                     /\ call[c].inflight = act
                     /\ call'[c].pc = "loop"

\* a fill step without selector or without value is passed over: nothing but
\* the index and the logs of the flow change
C18_AbsentFillIsNoOp ==
    \A c \in AtStep :
       (/\ StepOf(c).action = "fill"
        /\ StepOf(c).selector = Undefined \/ StepOf(c).value = Undefined
        /\ call'[c] # call[c]) =>
           /\ call'[c] = [call[c] EXCEPT !.index = @ + 1, !.logs = call'[c].logs]
           /\ UNCHANGED <<ctxState, ctxCloses>>

\* a fill step with selector and value issues page.fill(selector, value), and
\* the field holds the value once the call has resolved
C18_PresentFillSetsValue ==
    \A c \in Calls :
       /\ (/\ c \in AtStep
           /\ StepOf(c).action = "fill"
           /\ StepOf(c).selector # Undefined /\ StepOf(c).value # Undefined
           /\ call'[c] # call[c]) =>
              /\ call'[c].pc = "await"
              /\ call'[c].inflight = "fill"
              /\ call'[c].trace = Append(call[c].trace,
                                         Did("fill", call[c].context, StepOf(c).selector, NoNumber))
       /\ Resolving(c, "fill") =>
              LET step == call[c].flowSteps[call[c].index + 1] IN
              /\ step.selector \in Keys(call'[c].fields)
              /\ Get(call'[c].fields, step.selector) = step.value

\* C18: a fill step whose selector or value is absent performs no browser
\* action and raises no error: the flow continues with the next step, and
\* the page, the screenshots and the success outcome are the same as if the
\* step had not been in the sequence; a fill step with both present sets the
\* selector's value.
C18_FillStep == [][C18_AbsentFillIsNoOp /\ C18_PresentFillSetsValue]_vars

\* the flows in which page.click was rejected
ClickFailed == {c \in Done : call[c].op = "flow" /\ "click" \in Range(call[c].rejected)}

\* a rejected click is the last thing the flow did: the result reports the
\* failure and no later step was started
C19_ClickFailureState ==
    \A c \in ClickFailed :
       LET me    == call[c]
           steps == me.flowSteps
           k     == me.index + 1
           r     == me.result
           ft    == FlowTrace(me)
       IN  /\ me.outcome = "returned"
           /\ r.kind = "flow"
           /\ r.success = FALSE
           /\ me.rejected = <<"click">>
           /\ steps[k].action = "click"
           /\ ft[Len(ft)] = Did("click", me.context, steps[k].selector, NoNumber)
           /\ \A i \in 1..Len(r.logs) : IsStepHeader(r.logs[i]) => r.logs[i].n <= k
           /\ r.logs[Len(r.logs)].kind = "Error"
           /\ r.logs[Len(r.logs) - 1] = LogLine("Step", k, "click")

\* a click that resolves pushes the line naming its selector
C19_ClickSuccessStep ==
    \A c \in Calls :
       Resolving(c, "click") =>
          /\ call'[c].logs = Append(call[c].logs,
                                    LogLine("Clicked", 0, call[c].flowSteps[call[c].index + 1].selector))
          /\ call'[c].index = call[c].index + 1
          /\ call'[c].pending = "none"

\* C19: a click step fails the whole flow when its selector cannot be
\* located or clicked: the click failure is not isolated, the result has
\* success=false and no later step runs; a click that succeeds appends a log
\* line naming the selector.
C19_ClickStep == [](C19_ClickFailureState) /\ [][C19_ClickSuccessStep]_vars

\* the first click went through, the second one was rejected and the third
\* step never ran
C19_Witness ==
    \E c \in ClickFailed :
       /\ Len(call[c].flowSteps) = 3
       /\ call[c].index = 1
       /\ call[c].flowSteps[1].action = "click"
       /\ LogLine("Clicked", 0, "#a") \in Range(call[c].result.logs)

\* the timeout a wait step asks for: the given one, or the default
WaitAsked(step, default) == IF step.timeout # NoNumber THEN step.timeout ELSE default

\* a wait step issues waitForSelector(selector, timeout or 30000) when it has
\* a selector and waitForTimeout(timeout or 1000) when it has none
C20_WaitIssuedStep ==
    \A c \in AtStep :
       (StepOf(c).action = "wait" /\ call'[c] # call[c]) =>
          /\ call'[c].pc = "await"
          /\ call'[c].trace =
                Append(call[c].trace,
                       IF StepOf(c).selector # Undefined
                       THEN Did("waitForSelector", call[c].context, StepOf(c).selector,
                                WaitAsked(StepOf(c), 30000))
                       ELSE Did("waitForTimeout", call[c].context, "",
                                WaitAsked(StepOf(c), 1000)))

\* a flat wait that is over logs the duration waited; a wait for a selector
\* that times out fails the flow
C20_WaitEndStep ==
    \A c \in Calls :
       LET step == call[c].flowSteps[call[c].index + 1] IN
       /\ Resolving(c, "waitForTimeout") =>
             call'[c].logs = Append(call[c].logs,
                                    LogLine("Waited ms", call[c].trace[Len(call[c].trace)].ms, ""))
       /\ Resolving(c, "waitForSelector") =>
             call'[c].logs = Append(call[c].logs, LogLine("Waited for", 0, step.selector))
       /\ (/\ call[c].pc = "await"
           /\ call[c].inflight = "waitForSelector"
           /\ call'[c].pc # "loop"
           /\ call'[c] # call[c]) =>
             /\ call'[c].result.kind = "flow"
             /\ call'[c].result.success = FALSE

\* C20: a wait step with a selector waits for that selector up to the
\* step's timeout, or 30000 ms when no timeout is given, and a timeout of
\* that wait fails the flow; a wait step without a selector waits the step's
\* timeout as a flat duration, or 1000 ms when none is given, and logs the
\* duration actually waited.  For every given timeout value the wait uses
\* that value.
C20_WaitStep == [][C20_WaitIssuedStep /\ C20_WaitEndStep]_vars

(***************************************************************************)
(* The screenshots of a flow.                                              *)
(***************************************************************************)
\* the document the page shows when step j of steps starts, given that the
\* steps before it went through
RECURSIVE UrlBefore(_, _)
UrlBefore(steps, j) ==
    IF j <= 1 THEN <<"about:blank", "">>
    ELSE IF steps[j - 1].action = "goto"
         THEN <<appBaseUrl, IF steps[j - 1].path # Undefined THEN steps[j - 1].path ELSE "/">>
         ELSE UrlBefore(steps, j - 1)

\* one data URI per screenshot step among the first m steps, in step order
RECURSIVE ShotsOf(_, _)
ShotsOf(steps, m) ==
    IF m = 0 THEN <<>>
    ELSE IF steps[m].action = "screenshot"
         THEN Append(ShotsOf(steps, m - 1),
                     [media |-> "image/png", enc |-> "base64",
                      bytes |-> <<"screenshot", UrlBefore(steps, m)>>])
         ELSE ShotsOf(steps, m - 1)

\* the result holds one screenshot per completed screenshot step, in step order
C21_ScreenshotsState ==
    \A c \in FlowReturned :
       LET me == call[c]
           m  == IF me.result.success THEN Len(me.flowSteps) ELSE me.index
       IN  me.result.screenshots = ShotsOf(me.flowSteps, m)

\* within one invocation the sequence changes only when a screenshot step
\* completes, and then by one entry at its end
C21_ScreenshotsStep ==
    \A c \in Calls :
       (call[c].op = "flow" /\ call'[c].op = "flow") =>
          /\ \/ call'[c].screenshots = call[c].screenshots
             \/ /\ Resolving(c, "screenshot")
                /\ Len(call'[c].screenshots) = Len(call[c].screenshots) + 1
                /\ SubSeq(call'[c].screenshots, 1, Len(call[c].screenshots)) = call[c].screenshots
          /\ Resolving(c, "screenshot") => call'[c].screenshots # call[c].screenshots
          /\ (call[c].result.kind = "none" /\ call'[c].result.kind = "flow") =>
                call'[c].result.screenshots = call[c].screenshots

\* C21: the screenshots sequence of a flow only grows: each completed
\* screenshot step appends exactly one data URI at the end, no other step or
\* the failure path adds, removes or reorders entries, so the result holds
\* exactly one screenshot per completed screenshot step, in step order.
C21_ScreenshotsOnlyGrow == [](C21_ScreenshotsState) /\ [][C21_ScreenshotsStep]_vars

\* two screenshots of different documents were taken and the flow returned
C21_Witness ==
    \E c \in FlowReturned :
       /\ Len(call[c].result.screenshots) = 2
       /\ call[c].result.screenshots[1] # call[c].result.screenshots[2]
       /\ call[c].flowSteps[2].action = "goto"

\* the invocations whose page carries the extra headers
Injected == {c \in Calls : call[c].page /\ call[c].headers # {}}

ShotsAt(c) == {k \in 1..Len(call[c].trace) : call[c].trace[k].act = "screenshot"}

\* C23: takeAuthenticatedScreenshot captures the full page exactly when
\* options.bypassAuth is not false (absent or true gives full page, false
\* gives viewport only), and the payload is a PNG data URI.
C23_FullPageUnlessBypassFalse ==
    \A c \in Calls :
       call[c].op = "screenshot" =>
          /\ \A k \in ShotsAt(c) :
                /\ call[c].trace[k].target \in {"fullPage", "viewport"}
                /\ call[c].trace[k].target = "fullPage" <=>
                      call[c].options.bypassAuth \in {Undefined, "true"}
          /\ call[c].result.kind # "none" =>
                /\ ShotsAt(c) # {}
                /\ call[c].result.payload.media = "image/png"
                /\ call[c].result.payload.enc = "base64"
                /\ call[c].result.payload.bytes = <<"screenshot", call[c].url>>

C23_Witness ==
    \E c \in Done :
       /\ call[c].op = "screenshot"
       /\ call[c].outcome = "returned"
       /\ call[c].options.bypassAuth = "false"
       /\ \E k \in ShotsAt(c) : call[c].trace[k].target = "viewport"

(***************************************************************************)
(* Log accounting of a flow.                                               *)
(***************************************************************************)
\* a string that is given and not empty
Given(str) == str \notin {Undefined, ""}

\* the step performs a browser action; a click lacking its selector and a
\* fill lacking selector or value are skipped
Performs(step) ==
    CASE step.action = "click" -> Given(step.selector)
      [] step.action = "fill"  -> Given(step.selector) /\ Given(step.value)
      [] OTHER -> TRUE

\* an entry by what it is: the header of step n, a completion entry, or the
\* terminal error entry
Entry(l) ==
    CASE l.kind = "Step"  -> <<"Step", l.n, l.text>>
      [] l.kind = "Error" -> <<"Error", 0, "">>
      [] OTHER            -> <<"Completion", 0, "">>

\* the entries m steps leave behind when none of them throws
RECURSIVE EntriesOf(_, _)
EntriesOf(steps, m) ==
    IF m = 0 THEN <<>>
    ELSE EntriesOf(steps, m - 1)
         \o <<(<<"Step", m, steps[m].action>>)>>
         \o (IF Performs(steps[m]) THEN <<(<<"Completion", 0, "">>)>> ELSE <<>>)

\* C25: log accounting of testUserFlow: every attempted step i first appends
\* 'Step i: <action>' (i counted from 1); a step that performs its action
\* successfully then appends exactly one completion entry; a skipped step
\* (fill lacking selector or value, click lacking selector) appends nothing
\* more; a throwing step appends nothing more and the result's logs get
\* exactly one final 'Error: ...' entry.  So a successful flow has
\* logs.length = number of steps + number of steps that performed an action,
\* with no terminal entry.
C25_LogAccounting ==
    \A c \in FlowReturned :
       LET me    == call[c]
           steps == me.flowSteps
           logs  == me.result.logs
           got   == [i \in 1..Len(logs) |-> Entry(logs[i])]
       IN  /\ me.result.success =>
                /\ got = EntriesOf(steps, Len(steps))
                /\ Len(logs) = Len(steps)
                               + Cardinality({j \in 1..Len(steps) : Performs(steps[j])})
           /\ (~me.result.success /\ StepThrew(me)) =>
                got = EntriesOf(steps, me.index)
                      \o <<(<<"Step", me.index + 1, steps[me.index + 1].action>>),
                           (<<"Error", 0, "">>)>>
           /\ (~me.result.success /\ ~StepThrew(me)) => got = <<(<<"Error", 0, "">>)>>

\* a flow of three steps returned success: one step was skipped, two performed
C25_Witness ==
    \E c \in FlowReturned :
       /\ call[c].result.success
       /\ Len(call[c].flowSteps) = 3
       /\ Len(call[c].result.logs) = 5
       /\ call[c].flowSteps[2].action = "fill"
       /\ ~Performs(call[c].flowSteps[2])

(***************************************************************************)
(* Order of the page actions, the close and the delivery of the result.    *)
(***************************************************************************)
\* the calls made on a page or on its context, the close apart
PageActions == {"setExtraHTTPHeaders", "goto", "waitForSelector", "waitForTimeout",
                "click", "fill", "screenshot", "pdf", "allTextContents", "title",
                "extractUserInfo"}

\* close is the last call of an invocation, and what the caller holds was
\* handed over after it
C26_CloseIsLastState ==
    \A c \in Calls :
       LET me == call[c] IN
       /\ \A k \in 1..Len(me.trace) : me.trace[k].act = "close" => k = Len(me.trace)
       /\ (me.context # 0 /\ ctxState[me.context] = "closed") =>
             me.trace[Len(me.trace)] = Did("close", me.context, "", NoNumber)
       /\ (me.outcome # "running" /\ me.page) =>
             /\ me.trace[Len(me.trace)].act = "close"
             /\ ctxState[me.context] = "closed"
       /\ (me.outcome = "running" /\ me.pc # "close") => me.result.kind = "none"

\* a page action is issued only on a context that is open
C26_ActOnOpenStep ==
    \A c \in Calls :
       (Len(call'[c].trace) > Len(call[c].trace)) =>
          LET e == call'[c].trace[Len(call'[c].trace)] IN
          e.act \in PageActions => /\ e.ctx # 0
                                   /\ ctxState[e.ctx] = "open"
                                   /\ ctxState'[e.ctx] = "open"

\* C26: in every public operation no page action (set headers, navigate,
\* wait, click, fill, screenshot, pdf, locator read, title/url read) is
\* issued on a context after that context has been closed, and the result is
\* delivered to the caller only after the close of the context has completed.
C26_NoActionAfterClose == [](C26_CloseIsLastState) /\ [][C26_ActOnOpenStep]_vars

\* a scrape read a locator, closed its context and returned, while the
\* other invocation is still at work on its own page
C26_Witness ==
    \E c \in Done, d \in Holding :
       /\ call[c].op = "scrape"
       /\ call[c].outcome = "returned"
       /\ \E k \in 1..Len(call[c].trace) : call[c].trace[k].act = "allTextContents"
       /\ call[d].page

(***************************************************************************)
(* PostCard: handleShare and fallbackShare.                                *)
(***************************************************************************)
\* length at which handleShare cuts the content of a post
ExcerptLen == 100

\* the posts a card is mounted with: author name, author email, and the
\* content by its length
MkPost(username, email, len) == [username |-> username, email |-> email, len |-> len]
Posts ==
    {MkPost(u, e, n) : u \in {Undefined, "", "ann"}, e \in {Undefined, "a@x"},
                       n \in {0, ExcerptLen - 1, ExcerptLen, ExcerptLen + 1}}

\* const shareText = `... ${username || email || 'a mystical soul'} ...
\*   "${content.substring(0, 100)}${content.length > 100 ? '...' : ''}" ... ${postUrl}`
ShareText(post) ==
    MkText(OrStr(post.username, OrStr(post.email, "a mystical soul")),
           IF post.len < ExcerptLen THEN post.len ELSE ExcerptLen,
           post.len > ExcerptLen,
           "/?post=id")

\* one thing a share did: a call made, or the way a call ended
Effect(act, text) == [act |-> act, text |-> text]

\* fallbackShare(text): navigator.clipboard.writeText(text).then(...).catch(...)
\* Where the browser has no navigator.clipboard the property read throws a
\* TypeError before any promise exists, so neither callback is registered.
fallbackShare(sh) ==
    IF sh.canCopy
    THEN [sh EXCEPT !.pc = "copying", !.did = Append(@, Effect("writeText", sh.text))]
    ELSE [sh EXCEPT !.pc = "done", !.did = Append(@, Effect("TypeError", NoText))]

\* handleShare: native share where the browser has it, the fallback otherwise
handleShare ==
    /\ share.pc = "idle"
    /\ \E post \in Posts, canShare \in BOOLEAN, canCopy \in BOOLEAN :
          LET sh == [ShareIdle EXCEPT !.text = ShareText(post),
                                      !.canShare = canShare, !.canCopy = canCopy] IN
          share' = IF canShare
                   THEN [sh EXCEPT !.pc = "sharing", !.did = <<Effect("share", sh.text)>>]
                   ELSE fallbackShare(sh)
    /\ UNCHANGED <<user, userEngagements, rendered, userEngagementData, requests, toast>>
    /\ UNCHANGED <<adminVars, appBaseUrl, call, ctxState, ctxCloses, maxInFlight, mode>>

\* navigator.share(...) settles: .catch((error) => { console.log(...); fallbackShare(shareText) })
ShareSettles ==
    /\ share.pc = "sharing"
    /\ \E ok \in BOOLEAN :
          share' = IF ok
                   THEN [share EXCEPT !.pc = "done", !.did = Append(@, Effect("share:resolved", NoText))]
                   ELSE fallbackShare([share EXCEPT !.did = Append(@, Effect("share:rejected", NoText))])
    /\ UNCHANGED <<user, userEngagements, rendered, userEngagementData, requests, toast>>
    /\ UNCHANGED <<adminVars, appBaseUrl, call, ctxState, ctxCloses, maxInFlight, mode>>

\* writeText settles: .then(() => toast({...})).catch(() => alert(...))
WriteTextSettles ==
    /\ share.pc = "copying"
    /\ \E ok \in BOOLEAN :
          IF ok
          THEN /\ share' = [share EXCEPT !.pc = "done",
                               !.did = @ \o <<Effect("writeText:resolved", NoText),
                                              Effect("toast", NoText)>>]
               /\ toast' = "Sacred Link Copied!"
          ELSE /\ share' = [share EXCEPT !.pc = "done",
                               !.did = @ \o <<Effect("writeText:rejected", NoText),
                                              Effect("alert", share.text)>>]
               /\ UNCHANGED toast
    /\ UNCHANGED <<user, userEngagements, rendered, userEngagementData, requests>>
    /\ UNCHANGED <<adminVars, appBaseUrl, call, ctxState, ctxCloses, maxInFlight, mode>>

\* the share is over; the card is ready for the next one
ShareOver ==
    /\ share.pc = "done"
    /\ share' = ShareIdle
    /\ UNCHANGED <<user, userEngagements, rendered, userEngagementData, requests, toast>>
    /\ UNCHANGED <<adminVars, appBaseUrl, call, ctxState, ctxCloses, maxInFlight, mode>>

NextShare ==
    \/ handleShare
    \/ ShareSettles
    \/ WriteTextSettles
    \/ ShareOver

SpecShare == Init /\ [][NextShare]_vars

\* what a share did, by name
ShareActs == {share.did[i].act : i \in 1..Len(share.did)}

\* the position of the first effect named act, 0 if there is none
FirstAt(act) ==
    LET at == {i \in 1..Len(share.did) : share.did[i].act = act}
    IN  IF at = {} THEN 0 ELSE CHOOSE i \in at : \A j \in at : i <= j

\* C24: when sharing a post, if the native share capability is absent or its
\* call fails, a clipboard copy of the share text is attempted; if the
\* clipboard copy also fails, the text is shown directly in an alert; the
\* clipboard fallback is never attempted after a successful native share and
\* the alert never after a successful clipboard copy.
C24_ShareFallbackChain ==
    share.pc = "done" =>
       LET nativeFailed == ~share.canShare \/ "share:rejected" \in ShareActs
           copyFailed   == nativeFailed /\ "writeText:resolved" \notin ShareActs
       IN  /\ nativeFailed => {"writeText", "TypeError"} \cap ShareActs # {}
           /\ "writeText" \in ShareActs =>
                 share.did[FirstAt("writeText")] = Effect("writeText", share.text)
           /\ copyFailed => /\ "alert" \in ShareActs
                            /\ share.did[FirstAt("alert")] = Effect("alert", share.text)
           /\ "share:resolved" \in ShareActs =>
                 {"writeText", "TypeError", "alert"} \cap ShareActs = {}
           /\ "writeText:resolved" \in ShareActs => "alert" \notin ShareActs

(***************************************************************************)
(* PostCard: the engagement buttons.                                       *)
(***************************************************************************)
\* the types the buttons of a card call handleEngagement with
EngagementTypes == {"upvote", "downvote", "like", "energy"}

\* the users useAuth() yields: none, or one whose energy is undefined, 0, 9 or 10
Users == {NoUser} \cup {MkUser(TRUE, e) : e \in {NoNumber, 0, 9, 10}}

\* the engagement lists the server answers with; it keeps the two votes
\* apart, so no list has both
ServerLists == {<<>>, <<"upvote">>, <<"downvote">>, <<"energy">>, <<"like", "upvote">>}

\* the answers of the engagement query: an object without an engagements
\* field, or one with a list
ServerData ==
    {MkEngagementData(TRUE, FALSE, <<>>)}
        \cup {MkEngagementData(TRUE, TRUE, l) : l \in ServerLists}

\* list.includes(x)
Includes(list, x) == \E i \in 1..Len(list) : list[i] = x

\* list.filter(e => e !== x)
Without(list, x) == SelectSeq(list, LAMBDA e : e # x)

\* the vote a vote displaces
Opposite(type) ==
    CASE type = "upvote" -> "downvote"
      [] type = "downvote" -> "upvote"
      [] OTHER -> Undefined

\* apiRequest("DELETE", .../engage/${type}) or apiRequest("POST", .../engage, { type })
Request(type, remove) == [method |-> IF remove THEN "DELETE" ELSE "POST", type |-> type]

\* title of the toast shown for a new engagement
SuccessTitle(type) ==
    CASE type = "upvote"   -> "Positive Vibrations Sent"
      [] type = "downvote" -> "Constructive Energy Shared"
      [] type = "like"     -> "Love Resonance Activated"
      [] type = "energy"   -> "Spiritual Energy Transferred"

\* handleEngagement that adds a vote without taking the opposite vote out
handleEngagement_NoExclusion(type) ==
    /\ Len(requests) < MaxRequests
    /\ IF ~user.loggedIn
       THEN /\ toast' = "Mystical Access Required"
            /\ UNCHANGED <<userEngagements, requests>>
       ELSE LET isEngaged == Includes(rendered, type) IN
            IF type = "energy" /\ ~isEngaged /\ OrNum(user.energy, 0) < 10
            THEN /\ toast' = "Energy Depleted"
                 /\ UNCHANGED <<userEngagements, requests>>
            ELSE /\ toast' = IF isEngaged THEN toast ELSE SuccessTitle(type)
                 /\ requests' = Append(requests, Request(type, isEngaged))
                 /\ userEngagements' = IF isEngaged THEN Without(userEngagements, type)
                                       ELSE Append(userEngagements, type)
    /\ UNCHANGED <<user, rendered, userEngagementData, share>>
    /\ UNCHANGED <<adminVars, appBaseUrl, call, ctxState, ctxCloses, maxInFlight, mode>>

\* handleEngagement without the energy check
handleEngagement_NoEnergyCheck(type) ==
    /\ Len(requests) < MaxRequests
    /\ IF ~user.loggedIn
       THEN /\ toast' = "Mystical Access Required"
            /\ UNCHANGED <<userEngagements, requests>>
       ELSE LET isEngaged == Includes(rendered, type) IN
            /\ toast' = IF isEngaged THEN toast ELSE SuccessTitle(type)
            /\ requests' = Append(requests, Request(type, isEngaged))
            /\ userEngagements' = IF isEngaged THEN Without(userEngagements, type)
                                  ELSE Append(Without(userEngagements, Opposite(type)), type)
    /\ UNCHANGED <<user, rendered, userEngagementData, share>>
    /\ UNCHANGED <<adminVars, appBaseUrl, call, ctxState, ctxCloses, maxInFlight, mode>>

\* handleEngagement(type): isEngaged is read from the list of the render the
\* handler belongs to; the update functions of setUserEngagements run on the
\* state as it is, every earlier update applied
handleEngagement(type) ==
    /\ Len(requests) < MaxRequests
    /\ IF ~user.loggedIn
       THEN /\ toast' = "Mystical Access Required"
            /\ UNCHANGED <<userEngagements, requests>>
       ELSE LET isEngaged == Includes(rendered, type) IN
            IF type = "energy" /\ ~isEngaged /\ OrNum(user.energy, 0) < 10
            THEN /\ toast' = "Energy Depleted"
                 /\ UNCHANGED <<userEngagements, requests>>
            ELSE /\ toast' = IF isEngaged THEN toast ELSE SuccessTitle(type)
                 /\ requests' = Append(requests, Request(type, isEngaged))
                 /\ userEngagements' = IF isEngaged THEN Without(userEngagements, type)
                                       ELSE Append(Without(userEngagements, Opposite(type)), type)
    /\ UNCHANGED <<user, rendered, userEngagementData, share>>
    /\ UNCHANGED <<adminVars, appBaseUrl, call, ctxState, ctxCloses, maxInFlight, mode>>

\* the card renders again: its handlers see the state as it is now
Render ==
    /\ rendered # userEngagements
    /\ rendered' = userEngagements
    /\ UNCHANGED <<user, userEngagements, userEngagementData, requests, toast, share>>
    /\ UNCHANGED <<adminVars, appBaseUrl, call, ctxState, ctxCloses, maxInFlight, mode>>

\* const { user } = useAuth(): the user changes and the card renders
useAuth ==
    /\ \E u \in Users \ {user} : user' = u
    /\ rendered' = userEngagements
    /\ UNCHANGED <<userEngagements, userEngagementData, requests, toast, share>>
    /\ UNCHANGED <<adminVars, appBaseUrl, call, ctxState, ctxCloses, maxInFlight, mode>>

\* the engagement query (enabled: !!user) answers with new data: the card
\* renders, then the effect on [userEngagementData] runs
\*   if (userEngagementData?.engagements) setUserEngagements(userEngagementData.engagements)
useEffect ==
    /\ user.loggedIn
    /\ \E data \in ServerData \ {userEngagementData} :
          /\ userEngagementData' = data
          /\ userEngagements' = IF data.hasList THEN data.engagements ELSE userEngagements
    /\ rendered' = userEngagements
    /\ UNCHANGED <<user, requests, toast, share>>
    /\ UNCHANGED <<adminVars, appBaseUrl, call, ctxState, ctxCloses, maxInFlight, mode>>

\* engageMutation onError: toast({ title: "Error", ... })
onError ==
    /\ requests # <<>>
    /\ toast' = "Error"
    /\ UNCHANGED <<user, userEngagements, rendered, userEngagementData, requests, share>>
    /\ UNCHANGED <<adminVars, appBaseUrl, call, ctxState, ctxCloses, maxInFlight, mode>>

NextCard ==
    \/ \E type \in EngagementTypes : handleEngagement(type)
    \/ Render
    \/ useAuth
    \/ useEffect
    \/ onError

SpecCard == Init /\ [][NextCard]_vars

\* both votes are in the list
BothVotes(list) == Includes(list, "upvote") /\ Includes(list, "downvote")

\* C27: in PostCard, if the engagement list never receives both 'upvote' and
\* 'downvote' from the server, then after any sequence of handleEngagement
\* calls, under any interleaving with re-renders (each call deciding add or
\* remove from the engagement list it last rendered), the local
\* userEngagements list never contains both 'upvote' and 'downvote'.
C27_VotesExclusive == ~BothVotes(userEngagements) /\ ~BothVotes(rendered)

\* two calls from one render: the downvote displaced the upvote that the
\* handler could not yet see
C27_Witness ==
    /\ requests = <<Request("upvote", FALSE), Request("downvote", FALSE)>>
    /\ rendered = <<>>
    /\ userEngagements = <<"downvote">>

\* the energy the handler compares with 10
EnergyOf(u) == IF u.energy = NoNumber THEN 0 ELSE u.energy

C28_BlockedStep ==
    /\ ~user.loggedIn => /\ requests' = requests
                         /\ userEngagements' = userEngagements
    /\ \A type \in EngagementTypes :
          handleEngagement(type) =>
             /\ (type = "energy" /\ ~Includes(rendered, "energy") /\ EnergyOf(user) < 10) =>
                   /\ requests' = requests
                   /\ userEngagements' = userEngagements
             /\ (user.loggedIn /\ type = "energy" /\ Includes(rendered, "energy")) =>
                   /\ requests' = Append(requests, [method |-> "DELETE", type |-> "energy"])
                   /\ ~Includes(userEngagements', "energy")

\* C28: in PostCard, handleEngagement called with no logged-in user, or with
\* type 'energy' that is not currently engaged while the user's energy is
\* below 10, sends no engagement request and leaves userEngagements
\* unchanged; removing an existing 'energy' engagement is allowed whatever
\* the user's energy.
C28_BlockedEngagementIsNoOp == [][C28_BlockedStep]_vars

\* an energy engagement was removed by a user without energy, who was then
\* refused a new one
C28_Witness ==
    /\ requests = <<[method |-> "DELETE", type |-> "energy"]>>
    /\ user.loggedIn /\ user.energy = 0
    /\ toast = "Energy Depleted"
    /\ ~Includes(userEngagements, "energy")

(***************************************************************************)
(* useAdminAuth and useAdminPermissions.                                   *)
(***************************************************************************)
\* the values an isAdmin property is seen with, as JavaScript writes them
IsAdminValues == {"true", "false", "1", "0", "''", "'yes'", "null"}

\* Boolean(v) for those values
Truthy(v) == v \in {"true", "1", "'yes'"}

\* what the admin query can hold: nothing yet, null, a string, an object
\* without isAdmin, or an object with one
NullAdminData == MkAdminData("null", FALSE, Undefined)
AdminDataPool ==
    {NoAdminData, NullAdminData,
     MkAdminData("string", FALSE, Undefined),
     MkAdminData("object", FALSE, Undefined)}
        \cup {MkAdminData("object", TRUE, v) : v \in IsAdminValues}

\* the messages a failed admin query carries
ErrorMessages == {"", "Unauthorized"}

\* Admin that takes any object for an admin
Admin_AnyObject(data) == IF data.type = "object" THEN data ELSE NullAdminData

\* const admin = adminData && typeof adminData === 'object'
\*                 && 'isAdmin' in adminData && adminData.isAdmin ? adminData : null
Admin(data) ==
    IF /\ data.type \notin {"undefined", "null"}
       /\ data.type = "object"
       /\ data.hasIsAdmin
       /\ Truthy(data.isAdmin)
    THEN data ELSE NullAdminData

\* const isAuthenticated = Boolean(admin?.isAdmin)
IsAuthenticated(data) ==
    LET admin == Admin(data) IN
    admin # NullAdminData /\ admin.hasIsAdmin /\ Truthy(admin.isAdmin)

\* hasPermission(permission): if (!isAuthenticated || !admin) return false; return true
hasPermission(data, permission) ==
    IF ~IsAuthenticated(data) \/ Admin(data) = NullAdminData THEN FALSE ELSE TRUE

\* the five shorthands and the permission each one asks for
CanChecks ==
    {<<"canAccessAnalytics", "analytics">>, <<"canModerateContent", "moderation">>,
     <<"canManageUsers", "users">>, <<"canAccessTickets", "tickets">>,
     <<"canAccessSystem", "system">>}

\* the permissions a component asks hasPermission for
Permissions == {ck[2] : ck \in CanChecks} \cup {"", "billing"}

\* the admin query answers
QuerySucceeds ==
    /\ \E data \in AdminDataPool \ {NoAdminData} : adminData' = data
    /\ queryError' = Null
    /\ error' = Null
    /\ UNCHANGED lastCheck
    /\ UNCHANGED <<cardVars, appBaseUrl, call, ctxState, ctxCloses, maxInFlight, mode>>

\* the admin query fails (retry: false); the effect on [queryError] runs
\*   setError(queryError.message || 'Admin authentication failed')
QueryFails ==
    /\ \E message \in ErrorMessages :
          /\ queryError' = message
          /\ error' = OrStr(message, "Admin authentication failed")
    /\ UNCHANGED <<adminData, lastCheck>>
    /\ UNCHANGED <<cardVars, appBaseUrl, call, ctxState, ctxCloses, maxInFlight, mode>>

\* logout: queryClient.removeQueries({ queryKey: ['/api/admin'] })
logout ==
    /\ adminData' = NoAdminData
    /\ queryError' = Null
    /\ error' = Null
    /\ UNCHANGED lastCheck
    /\ UNCHANGED <<cardVars, appBaseUrl, call, ctxState, ctxCloses, maxInFlight, mode>>

\* a component calls hasPermission(permission)
CheckPermission ==
    /\ \E permission \in Permissions :
          lastCheck' = [permission |-> permission, via |-> "hasPermission",
                        answer |-> hasPermission(adminData, permission), data |-> adminData]
    /\ UNCHANGED <<adminData, queryError, error>>
    /\ UNCHANGED <<cardVars, appBaseUrl, call, ctxState, ctxCloses, maxInFlight, mode>>

\* a component calls one of canAccessAnalytics() ... canAccessSystem()
CheckCan ==
    /\ \E ck \in CanChecks :
          lastCheck' = [permission |-> ck[2], via |-> ck[1],
                        answer |-> hasPermission(adminData, ck[2]), data |-> adminData]
    /\ UNCHANGED <<adminData, queryError, error>>
    /\ UNCHANGED <<cardVars, appBaseUrl, call, ctxState, ctxCloses, maxInFlight, mode>>

NextAdmin ==
    \/ QuerySucceeds
    \/ QueryFails
    \/ logout
    \/ CheckPermission
    \/ CheckCan

SpecAdmin == Init /\ [][NextAdmin]_vars

\* the fetched data is an object with a truthy isAdmin field
ValidAdmin(data) ==
    /\ data.type = "object"
    /\ data.hasIsAdmin
    /\ data.isAdmin \in {"true", "1", "'yes'"}

\* C29: in useAdminAuth and useAdminPermissions, isAuthenticated is true
\* exactly when admin is non-null, admin is non-null only when the fetched
\* data is an object with a truthy isAdmin field, and hasPermission(p) and
\* every canX() return false for every permission whenever isAuthenticated
\* is false (and true for every permission when it is true).
C29_AdminGuard ==
    /\ IsAuthenticated(adminData) <=> Admin(adminData) # NullAdminData
    /\ Admin(adminData) # NullAdminData =>
          /\ ValidAdmin(adminData)
          /\ Admin(adminData) = adminData
    /\ \A permission \in Permissions :
          hasPermission(adminData, permission) = IsAuthenticated(adminData)
    /\ lastCheck # NoCheck =>
          /\ lastCheck.answer = IsAuthenticated(lastCheck.data)
          /\ lastCheck.answer = ValidAdmin(lastCheck.data)

\* a component was told it may manage users; the admin has logged out since
C29_Witness ==
    /\ lastCheck.via = "canManageUsers"
    /\ lastCheck.answer
    /\ lastCheck.data.isAdmin = "1"
    /\ adminData = NoAdminData

====
